---- MODULE Spec2Model ----
(***************************************************************************)
(* Model of the oath2 OpenFlow 1.3 controller runtime:                     *)
(*   src/src/ctl/mod.rs     start_controller, the handler (dispatcher)     *)
(*                          thread, handle_hello, handle_echo_request      *)
(*   src/src/ctl/switch.rs  start_switch_connection: the reader and the    *)
(*                          writer thread of one switch session,           *)
(*                          read_bytes / read_exact                        *)
(*   src/src/ds/mod.rs      Header, Version, Type, OfPayload, OfMsg        *)
(*   src/src/ds/role.rs     Role                                           *)
(*                                                                         *)
(* A Rust panic ends the thread it is raised in and drops what the thread  *)
(* owns; an std::sync::mpsc send on a channel whose Receiver was dropped   *)
(* returns Err and enqueues nothing; recv returns Err once every Sender    *)
(* is dropped and the queue is empty.                                      *)
(***************************************************************************)
EXTENDS Integers, Sequences, FiniteSets, TLC

VARIABLES
    ctl,        \* start_controller: "start", "accepting", "returned_err"
    dispatcher, \* the Handler-Thread: "none", "running", "panicked"
    inbox,      \* the channel (tcp_s, tcp_r): queue of IncomingMsg
    sess,       \* per connection: "new", "open", "failed"
    arrived,    \* per connection: the frames read from the socket, in order
    reader,     \* per connection, the input thread: "none", "running", "panicked"
    replyq,     \* per connection: the channel (send, recv): queue of OfMsg
    writer,     \* per connection, the output thread: "none" (not started),
                \* "running", "panicked"
    sock_out,   \* per connection: the bytes written to the socket
    nmsgs,      \* iterations of the input threads' loops so far
    processed,  \* history, per connection: the events the dispatcher has taken
    sent,       \* history, per connection: the messages enqueued on replyq
    \* one call read_bytes(stream, len) of ctl/switch.rs, statement by statement
    rb_pc,      \* "idle" (no call), "outer" (at `while read < len`), "inner"
                \* (at `while !buf.is_empty()` of read_exact), "ok" (returned
                \* Ok(res)), "panicked"
    rb_len,     \* the argument len
    rb_total,   \* bytes the switch sends on the stream before rb_end
    rb_end,     \* what follows them: "open" (nothing yet), "fin" (the switch
                \* closed: reads return Ok(0)), "rst" (reads return Err)
    rb_pos,     \* bytes of the stream consumed so far
    rb_read,    \* the local `read`
    rb_btr,     \* the local `bytes_to_read`
    rb_buf,     \* length of what is left of `buf` in read_exact
    rb_slice,   \* the bytes put into buf_slice by this read_exact call
    rb_res,     \* the local `res`
    rb_zero,    \* reads that returned Ok(0)
    \* one call of a function of ds/ (a decoder, an encoder, a constructor)
    \* and of the function applied to its result
    fn_pc,      \* "idle" (no call), "start" (the argument is chosen), "mid"
                \* (the first function has returned), "done" (the second too)
    fn_in,      \* the argument
    fn_mid,     \* what the first function returned
    fn_out      \* what the second function returned

ctlVars == <<ctl, dispatcher, inbox, sess, arrived, reader,
             replyq, writer, sock_out, nmsgs, processed, sent>>
rbVars == <<rb_pc, rb_len, rb_total, rb_end, rb_pos, rb_read, rb_btr, rb_buf,
            rb_slice, rb_res, rb_zero>>
fnVars == <<fn_pc, fn_in, fn_mid, fn_out>>
vars == <<ctlVars, rbVars, fnVars>>

(***************************************************************************)
(* Bounds of the model.                                                    *)
(***************************************************************************)
\* iterations of the input threads' loops (frames read, failed reads) in
\* one run, all connections together
MaxMsgs == 3

\* reads of one stream that return Ok(0)
MaxEofReads == 2

\* the connections the listener accepts
Sessions == {"A", "B"}

(***************************************************************************)
(* ds/mod.rs: Header, Version, Type                                        *)
(***************************************************************************)
HEADER_LENGTH == 8

\* enum Version, by discriminant
VersionByte ==
    [V1_0 |-> 1, V1_1 |-> 2, V1_2 |-> 3, V1_3 |-> 4, V1_4 |-> 5]

\* enum Type, by discriminant
TypeByte ==
    [Hello |-> 0, Error |-> 1, EchoRequest |-> 2, EchoReply |-> 3,
     Experimenter |-> 4, FeaturesRequest |-> 5, FeaturesReply |-> 6,
     GetConfigRequest |-> 7, GetConfigReply |-> 8, SetConfig |-> 9,
     PacketIn |-> 10, FlowRemoved |-> 11, PortStatus |-> 12,
     PacketOut |-> 13, FlowMod |-> 14, GroupMod |-> 15, PortMod |-> 16,
     TableMod |-> 17, MultipartRequest |-> 18, MultipartReply |-> 19,
     BarrierRequest |-> 20, BarrierReply |-> 21,
     QueueGetConfigRequest |-> 22, QueueGetConfigReply |-> 23,
     RoleRequest |-> 24, RoleReply |-> 25, GetAsyncRequest |-> 26,
     GetAsyncReply |-> 27, SetAsync |-> 28, MeterMod |-> 29]

\* Version::from_u8 / Type::from_u8 (derive Primitive): Some(variant) or None
VersionOfByte ==
    [b \in {VersionByte[v] : v \in DOMAIN VersionByte} |->
        CHOOSE v \in DOMAIN VersionByte : VersionByte[v] = b]

VersionFromU8(b) ==
    IF b \in DOMAIN VersionOfByte
    THEN [some |-> TRUE, val |-> VersionOfByte[b]]
    ELSE [some |-> FALSE]

TypeOfByte ==
    [b \in {TypeByte[t] : t \in DOMAIN TypeByte} |->
        CHOOSE t \in DOMAIN TypeByte : TypeByte[t] = b]

TypeFromU8(b) ==
    IF b \in DOMAIN TypeOfByte
    THEN [some |-> TRUE, val |-> TypeOfByte[b]]
    ELSE [some |-> FALSE]

\* byteorder: big-endian reads and writes
U16BE(x) == <<(x \div 256) % 256, x % 256>>
U32BE(x) == <<(x \div 16777216) % 256, (x \div 65536) % 256, (x \div 256) % 256, x % 256>>
ReadU16BE(b, i) == b[i] * 256 + b[i + 1]
ReadU32BE(b, i) == b[i] * 16777216 + b[i + 1] * 65536 + b[i + 2] * 256 + b[i + 3]

\* impl TryFrom<&[u8]> for Header
HeaderTryFrom(bytes) ==
    IF Len(bytes) # HEADER_LENGTH
    THEN [tag |-> "err", kind |-> "InvalidSliceLength", val |-> Len(bytes), ttype |-> "Header"]
    ELSE LET version == VersionFromU8(bytes[1])
             ttype   == TypeFromU8(bytes[2])
         IN  IF ~version.some
             THEN [tag |-> "err", kind |-> "UnknownValue", val |-> bytes[1],
                   ttype |-> "Version"]
             ELSE IF ~ttype.some
             THEN [tag |-> "err", kind |-> "UnknownValue", val |-> bytes[2],
                   ttype |-> "Type"]
             ELSE [tag |-> "ok",
                   val |-> [version |-> version.val,
                            ttype   |-> ttype.val,
                            length  |-> ReadU16BE(bytes, 3),
                            xid     |-> ReadU32BE(bytes, 5)]]

\* Into<Vec<u8>> for Header with write_u16::<LittleEndian> for the length
HeaderInto_LittleEndianLength(h) ==
    <<VersionByte[h.version], TypeByte[h.ttype], h.length % 256, (h.length \div 256) % 256>>
        \o U32BE(h.xid)

\* impl Into<Vec<u8>> for Header
HeaderInto(h) ==
    <<VersionByte[h.version], TypeByte[h.ttype]>> \o U16BE(h.length) \o U32BE(h.xid)

(***************************************************************************)
(* ds/mod.rs: OfPayload, OfMsg                                             *)
(***************************************************************************)
\* enum OfPayload: the variants carry no data in ds/mod.rs
OfPayload ==
    {"Hello", "Error", "EchoRequest", "EchoReply", "Experimenter",
     "FeaturesRequest", "FeaturesReply", "GetConfigRequest", "GetConfigReply",
     "SetConfig", "PacketIn", "FlowRemoved", "PortStatus", "PacketOut",
     "FlowMod", "GroupMod", "PortMod", "TableMod", "MultipartRequest",
     "MultipartReply", "BarrierRequest", "BarrierReply",
     "QueueGetConfigRequest", "QueueGetConfigReply", "RoleRequest",
     "RoleReply", "GetAsyncRequest", "GetAsyncReply", "SetAsync", "MeterMod"}

\* generate_header with the xid left out of the header (xid: 0)
generate_header_ZeroXid(payload, xid) ==
    IF payload = "Error"
    THEN [tag |-> "panic"]
    ELSE [tag |-> "ok",
          val |-> [version |-> "V1_3",
                   ttype   |-> IF payload = "GetConfigReply"
                               THEN "GetConfigRequest"
                               ELSE payload,
                   length  |-> HEADER_LENGTH,
                   xid     |-> 0]]

\* generate_header with the EchoReply arm setting Type::EchoRequest
generate_header_EchoAsRequest(payload, xid) ==
    IF payload = "Error"
    THEN [tag |-> "panic"]
    ELSE [tag |-> "ok",
          val |-> [version |-> "V1_3",
                   ttype   |-> CASE payload = "GetConfigReply" -> "GetConfigRequest"
                                 [] payload = "EchoReply" -> "EchoRequest"
                                 [] OTHER -> payload,
                   length  |-> HEADER_LENGTH,
                   xid     |-> xid]]

\* OfPayload::generate_header: the match sets header.ttype per variant;
\* OfPayload::Error has no arm of its own and reaches `_ => panic!`
generate_header(payload, xid) ==
    IF payload = "Error"
    THEN [tag |-> "panic"]
    ELSE [tag |-> "ok",
          val |-> [version |-> "V1_3",
                   ttype   |-> IF payload = "GetConfigReply"
                               THEN "GetConfigRequest"
                               ELSE payload,
                   length  |-> HEADER_LENGTH,
                   xid     |-> xid]]

\* OfMsg::new
OfMsgNew(header, payload) == [header |-> header, payload |-> payload]

\* OfMsg::generate
OfMsgGenerate(xid, payload) ==
    LET header == generate_header(payload, xid) IN
    IF header.tag = "panic"
    THEN [tag |-> "panic"]
    ELSE [tag |-> "ok", val |-> OfMsgNew(header.val, payload)]

\* impl Into<Vec<u8>> for OfPayload: three variants have a (empty) body,
\* every other variant reaches `_ => panic!("not yet implemented")`
OfPayloadInto(payload) ==
    IF payload \in {"Hello", "EchoRequest", "EchoReply"}
    THEN [tag |-> "ok", val |-> <<>>]
    ELSE [tag |-> "panic"]

\* impl Into<Vec<u8>> for OfMsg: header bytes, then payload bytes
OfMsgInto(m) ==
    LET body == OfPayloadInto(m.payload) IN
    IF body.tag = "panic"
    THEN [tag |-> "panic"]
    ELSE [tag |-> "ok", val |-> HeaderInto(m.header) \o body.val]

(***************************************************************************)
(* ds/role.rs                                                              *)
(***************************************************************************)
\* enum ControllerRole, by discriminant
ControllerRoleByte == [NoChange |-> 0, Equal |-> 1, Master |-> 2, Slave |-> 3]

\* impl TryFrom<&[u8]> for Role: the reads are unwrap()ed, so a short slice
\* panics; an unknown role is an error value.  generation_id is kept as its
\* eight big-endian bytes.
RoleTryFrom(bytes) ==
    IF Len(bytes) < 4
    THEN [tag |-> "panic"]
    ELSE IF ~(\E r \in DOMAIN ControllerRoleByte : ControllerRoleByte[r] = ReadU32BE(bytes, 1))
    THEN [tag |-> "err", kind |-> "UnknownValue", val |-> ReadU32BE(bytes, 1),
          ttype |-> "ControllerRole"]
    ELSE IF Len(bytes) < 16
    THEN [tag |-> "panic"]
    ELSE [tag |-> "ok",
          val |-> [role |-> CHOOSE r \in DOMAIN ControllerRoleByte :
                                ControllerRoleByte[r] = ReadU32BE(bytes, 1),
                   generation_id |-> SubSeq(bytes, 9, 16)]]

(***************************************************************************)
(* ctl/switch.rs: one iteration of the reader thread's loop on one frame   *)
(***************************************************************************)
\* Header::payload_length: self.length - 8 on u16.  With length < 8 the
\* subtraction overflows: a build with overflow checks panics, a build
\* without them wraps around; both are outcomes.
payload_length(h) ==
    IF h.length >= HEADER_LENGTH
    THEN {[tag |-> "ok", val |-> h.length - HEADER_LENGTH]}
    ELSE {[tag |-> "panic"], [tag |-> "ok", val |-> h.length - HEADER_LENGTH + 65536]}

\* the `match &header.ttype()` of the reader (switch.rs 37-87): Some(payload),
\* None, or a panic out of an expect() on the payload decoder.  Of the types
\* whose payload is decoded, this model sends RoleReply only.
ReaderPayload(ttype, body) ==
    CASE ttype \in {"Hello", "Error", "EchoRequest", "BarrierReply"} ->
            [tag |-> "some", val |-> ttype]
      [] ttype \in {"Experimenter", "MultipartReply"} ->
            [tag |-> "none"]
      [] ttype = "RoleReply" ->
            IF RoleTryFrom(body).tag = "ok"
            THEN [tag |-> "some", val |-> "RoleReply"]
            ELSE [tag |-> "panic"]
      [] ttype \in {"EchoReply", "FeaturesRequest", "GetConfigRequest", "SetConfig",
                    "PacketOut", "FlowMod", "GroupMod", "PortMod", "TableMod",
                    "MultipartRequest", "BarrierRequest", "QueueGetConfigRequest",
                    "RoleRequest", "GetAsyncRequest", "SetAsync", "MeterMod"} ->
            [tag |-> "none"]

\* the reader's loop body up to the channel send, on a frame whose
\* header bytes and body bytes are all available:
\*   "panic"   an expect() failed: the thread ends
\*   "drop"    payload None: nothing is sent, the loop goes on
\*   "deliver" IncomingMsg{reply_ch, msg} is sent on ctl_ch
ReaderOutcome(frame) ==
    LET header == HeaderTryFrom(frame.hdr) IN
    IF header.tag # "ok"
    THEN [tag |-> "panic"]
    ELSE LET payload == ReaderPayload(header.val.ttype, frame.body) IN
         IF payload.tag = "panic"
         THEN [tag |-> "panic"]
         ELSE IF payload.tag = "none"
         THEN [tag |-> "drop"]
         ELSE [tag |-> "deliver", msg |-> OfMsgNew(header.val, payload.val)]

(***************************************************************************)
(* The switches (environment)                                              *)
(***************************************************************************)
\* the n-th frame of a connection carries the xid n * 0x01020304 (all four
\* bytes of the field differ; two connections use the same xids); the
\* model's integers stay below 2^31
XidOf(n) == n * 16909060

\* a well-framed message: the header's length field counts header and body
MkFrame(version, ttype, body, xid) ==
    [hdr  |-> <<version, ttype>> \o U16BE(HEADER_LENGTH + Len(body)) \o U32BE(xid),
     body |-> body]

\* what a switch may send: Hello, EchoRequest, BarrierReply, EchoReply, a
\* header with the undefined type byte 0x7F, and a RoleReply whose role
\* field (9) is no ControllerRole
SwitchFrames(xid) ==
    {MkFrame(4, 0, <<>>, xid),
     MkFrame(4, 2, <<>>, xid),
     MkFrame(4, 21, <<>>, xid),
     MkFrame(4, 3, <<>>, xid),
     MkFrame(4, 127, <<>>, xid),
     MkFrame(4, 25, <<0, 0, 0, 9, 0, 0, 0, 0, 0, 0, 0, 0, 0, 0, 0, 1>>, xid)}

\* what the user handler may do with an event: return, panic, or send
\* OfMsg::generate(xid, p) on the event's reply_ch and return
HandlerSends == {"EchoRequest", "BarrierRequest"}
HandlerBehaviours == {"return", "panic"} \cup HandlerSends

\* bytes a failing write_all may have put on the socket before the error
PartialWrites == {3}

(***************************************************************************)
(* Initial state: start_controller has been called                         *)
(***************************************************************************)
\* no call of read_bytes is followed
RbIdle ==
    /\ rb_pc = "idle"
    /\ rb_len = 0
    /\ rb_total = 0
    /\ rb_end = "open"
    /\ rb_pos = 0
    /\ rb_read = 0
    /\ rb_btr = 0
    /\ rb_buf = 0
    /\ rb_slice = <<>>
    /\ rb_res = <<>>
    /\ rb_zero = 0

\* no function of ds/ is being followed
FnIdle ==
    /\ fn_pc = "idle"
    /\ fn_in = <<>>
    /\ fn_mid = <<>>
    /\ fn_out = <<>>

CtlInit ==
    /\ ctl = "start"
    /\ dispatcher = "none"
    /\ inbox = <<>>
    /\ sess = [s \in Sessions |-> "new"]
    /\ arrived = [s \in Sessions |-> <<>>]
    /\ reader = [s \in Sessions |-> "none"]
    /\ replyq = [s \in Sessions |-> <<>>]
    /\ writer = [s \in Sessions |-> "none"]
    /\ sock_out = [s \in Sessions |-> <<>>]
    /\ nmsgs = 0
    /\ processed = [s \in Sessions |-> <<>>]
    /\ sent = [s \in Sessions |-> <<>>]

Init == CtlInit /\ RbIdle /\ FnIdle

sessVars == <<sess, arrived, reader, nmsgs>>
outVars == <<replyq, writer, sock_out, sent>>

(***************************************************************************)
(* ctl/mod.rs: start_controller                                            *)
(***************************************************************************)
\* TcpListener::bind(addr)? and the spawn of the Handler-Thread (`?`):
\* either failure returns the error to the caller
StartController ==
    /\ ctl = "start"
    /\ \E out \in {"bind_err", "spawn_err", "ok"} :
          IF out = "ok"
          THEN ctl' = "accepting" /\ dispatcher' = "running"
          ELSE ctl' = out /\ dispatcher' = dispatcher
    /\ UNCHANGED <<fnVars, rbVars, inbox, sessVars, outVars, processed>>

\* the accept loop with `let stream = stream?;` and
\* `start_switch_connection(..)?;`: a failed connection ends start_controller
Accept_ReturnsOnErr(s) ==
    /\ ctl = "accepting"
    /\ sess[s] = "new"
    /\ s = "B" => sess["A"] # "new"
    /\ \E out \in {"ok", "err"} :
          IF out = "ok"
          THEN /\ sess' = [sess EXCEPT ![s] = "open"]
               /\ reader' = [reader EXCEPT ![s] = "running"]
               /\ writer' = [writer EXCEPT ![s] = "running"]
               /\ ctl' = ctl
          ELSE /\ sess' = [sess EXCEPT ![s] = "failed"]
               /\ ctl' = "accept_err"
               /\ UNCHANGED <<reader, writer>>
    /\ UNCHANGED <<fnVars, rbVars, dispatcher, inbox, arrived, nmsgs,
                   replyq, sock_out, sent, processed>>

\* one round of `for stream in tcp_listener.incoming()`, which takes the
\* connections one after the other ("A" is the first, "B" the second): an Err stream is
\* skipped; start_switch_connection's result is not looked at.  In
\* start_switch_connection, try_clone()? or the spawn of the input thread
\* may fail (no thread runs), or the spawn of the output thread may fail
\* (the input thread runs, recv is dropped with the closure).
Accept(s) ==
    /\ ctl = "accepting"
    /\ sess[s] = "new"
    /\ s = "B" => sess["A"] # "new"
    /\ \E out \in {"ok", "err", "writer_spawn_err"} :
          CASE out = "ok" ->
                  /\ sess' = [sess EXCEPT ![s] = "open"]
                  /\ reader' = [reader EXCEPT ![s] = "running"]
                  /\ writer' = [writer EXCEPT ![s] = "running"]
            [] out = "err" ->
                  /\ sess' = [sess EXCEPT ![s] = "failed"]
                  /\ UNCHANGED <<reader, writer>>
            [] out = "writer_spawn_err" ->
                  /\ sess' = [sess EXCEPT ![s] = "open"]
                  /\ reader' = [reader EXCEPT ![s] = "running"]
                  /\ UNCHANGED writer
    /\ UNCHANGED <<fnVars, rbVars, ctl, dispatcher, inbox, arrived, nmsgs,
                   replyq, sock_out, sent, processed>>

(***************************************************************************)
(* ctl/switch.rs: the input thread                                         *)
(***************************************************************************)
\* IncomingMsg built with the Sender of one channel shared by all sessions
IncomingMsg_SharedCh(s, msg) == [reply_ch |-> "A", msg |-> msg, from |-> s]

\* IncomingMsg { reply_ch: send.clone(), msg }.  `from` is not a field of
\* the struct: it records the connection whose reader built the event.
IncomingMsg(s, msg) == [reply_ch |-> s, msg |-> msg, from |-> s]

\* a panic in the input thread that takes the dispatcher's queue with it
ReaderPanics_DropsInbox(s) ==
    /\ reader' = [reader EXCEPT ![s] = "panicked"]
    /\ inbox' = <<>>

\* a panic in the input thread (an expect() failed): the thread ends, no
\* other thread and no queue is touched
ReaderPanics(s) ==
    /\ reader' = [reader EXCEPT ![s] = "panicked"]
    /\ inbox' = inbox

\* ctl_ch.send that puts the event at the front of the dispatcher's queue
CtlChSend_Front(s, msg) ==
    IF dispatcher = "running"
    THEN /\ inbox' = <<IncomingMsg(s, msg)>> \o inbox
         /\ reader' = reader
    ELSE ReaderPanics(s)

\* ctl_ch.send(IncomingMsg{..}).expect(..): the event goes to the back of
\* the dispatcher's queue; the send is Err once tcp_r is dropped
CtlChSend(s, msg) ==
    IF dispatcher = "running"
    THEN /\ inbox' = Append(inbox, IncomingMsg(s, msg))
         /\ reader' = reader
    ELSE ReaderPanics(s)

\* one iteration of the loop: the next frame the switch sends on this
\* connection arrives and is read whole (the socket is read by this thread
\* alone, so a frame is modelled as arriving when it is read)
ReaderStep(s) ==
    /\ reader[s] = "running"
    /\ nmsgs < MaxMsgs
    /\ nmsgs' = nmsgs + 1
    /\ \E frame \in SwitchFrames(XidOf(Len(arrived[s]) + 1)) :
          /\ arrived' = [arrived EXCEPT ![s] = Append(@, frame)]
          /\ LET out == ReaderOutcome(frame) IN
                CASE out.tag = "panic" ->
                        ReaderPanics(s)
                  [] out.tag = "drop" ->
                        /\ reader' = reader
                        /\ inbox' = inbox
                  [] out.tag = "deliver" ->
                        CtlChSend(s, out.msg)
    /\ UNCHANGED <<fnVars, rbVars, ctl, dispatcher, sess, outVars, processed>>

\* one iteration of the loop in which the read fails: read_exact returns
\* Err(e) (the connection was reset) and the expect() in read_bytes panics
ReaderIoErr(s) ==
    /\ reader[s] = "running"
    /\ nmsgs < MaxMsgs
    /\ nmsgs' = nmsgs + 1
    /\ ReaderPanics(s)
    /\ UNCHANGED <<fnVars, rbVars, ctl, dispatcher, sess, arrived, outVars, processed>>

(***************************************************************************)
(* ctl/mod.rs: the Handler-Thread (dispatcher)                             *)
(***************************************************************************)
\* history: the dispatcher took event ev from the inbox and passed it to
\* `by`; ch_open records whether the Receiver of ev.reply_ch was alive then
Took(ev, by) ==
    processed' = [processed EXCEPT ![ev.from] =
                     Append(@, [ev |-> ev, by |-> by,
                                ch_open |-> writer[ev.reply_ch] = "running"])]

\* a panic in the thread drops tcp_r and, with it, the queued IncomingMsgs
DispatcherPanics ==
    /\ dispatcher' = "panicked"
    /\ inbox' = <<>>


\* reply_ch.send(m) on a channel shared by all sessions: m is queued for
\* the output thread of the first session
Enqueued_OnSharedQueue(ch, m, by) ==
    /\ replyq' = [replyq EXCEPT !["A"] = Append(@, m)]
    /\ sent' = [sent EXCEPT ![ch] = Append(@, [msg |-> m, by |-> by])]

\* reply_ch.send(m) that succeeded: m is queued for the output thread
Enqueued(ch, m, by) ==
    /\ replyq' = [replyq EXCEPT ![ch] = Append(@, m)]
    /\ sent' = [sent EXCEPT ![ch] = Append(@, [msg |-> m, by |-> by])]

\* handle_hello: generate(xid, Hello), reply_ch.send(..).expect(..); the
\* send is Err, and the expect panics, once the output thread has gone
handle_hello(msg) ==
    /\ Took(msg, "handle_hello")
    /\ LET response == OfMsgGenerate(msg.msg.header.xid, "Hello") IN
          IF response.tag = "ok" /\ writer[msg.reply_ch] = "running"
          THEN /\ Enqueued(msg.reply_ch, response.val, "handle_hello")
               /\ dispatcher' = dispatcher
               /\ inbox' = Tail(inbox)
          ELSE /\ DispatcherPanics
               /\ UNCHANGED <<replyq, sent>>

\* handle_echo_request: as handle_hello.  The source names the payload
\* OfPayload::EchoResponse; the enum of ds/mod.rs has no such variant, its
\* echo reply variant is EchoReply, which is what is modelled.
handle_echo_request(msg) ==
    /\ Took(msg, "handle_echo_request")
    /\ LET response == OfMsgGenerate(msg.msg.header.xid, "EchoReply") IN
          IF response.tag = "ok" /\ writer[msg.reply_ch] = "running"
          THEN /\ Enqueued(msg.reply_ch, response.val, "handle_echo_request")
               /\ dispatcher' = dispatcher
               /\ inbox' = Tail(inbox)
          ELSE /\ DispatcherPanics
               /\ UNCHANGED <<replyq, sent>>

\* handler(of_msg): the user's function runs in the dispatcher thread, with
\* nothing around the call that catches a panic
handler(msg) ==
    /\ Took(msg, "handler")
    /\ \E b \in HandlerBehaviours :
          CASE b = "return" ->
                  /\ dispatcher' = dispatcher
                  /\ inbox' = Tail(inbox)
                  /\ UNCHANGED <<replyq, sent>>
            [] b = "panic" ->
                  /\ DispatcherPanics
                  /\ UNCHANGED <<replyq, sent>>
            [] b \in HandlerSends ->
                  /\ dispatcher' = dispatcher
                  /\ inbox' = Tail(inbox)
                  /\ IF writer[msg.reply_ch] = "running"
                     THEN Enqueued(msg.reply_ch,
                                   OfMsgGenerate(msg.msg.header.xid, b).val, "handler")
                     ELSE UNCHANGED <<replyq, sent>>

\* one iteration of the loop: tcp_r.recv() is Ok(of_msg).  recv() is never
\* Err: start_controller keeps tcp_s for as long as it runs.
Dispatch ==
    /\ dispatcher = "running"
    /\ inbox # <<>>
    /\ LET of_msg == Head(inbox) IN
          CASE of_msg.msg.header.ttype = "Hello" -> handle_hello(of_msg)
            [] of_msg.msg.header.ttype = "EchoRequest" -> handle_echo_request(of_msg)
            [] OTHER -> handler(of_msg)
    /\ UNCHANGED <<fnVars, rbVars, ctl, sessVars, writer, sock_out>>

(***************************************************************************)
(* ctl/switch.rs: the output thread                                        *)
(***************************************************************************)
\* a panic in the thread drops recv and the messages still queued
WriterPanics(s) ==
    /\ writer' = [writer EXCEPT ![s] = "panicked"]
    /\ replyq' = [replyq EXCEPT ![s] = <<>>]

\* the output thread's loop with write() in the place of write_all(): a
\* short write goes unnoticed and the loop goes on
WriterStep_ShortWrite(s) ==
    /\ writer[s] = "running"
    /\ replyq[s] # <<>>
    /\ LET write_slice == OfMsgInto(Head(replyq[s])) IN
          IF write_slice.tag = "panic"
          THEN /\ WriterPanics(s)
               /\ sock_out' = sock_out
          ELSE /\ \E k \in PartialWrites \cup {Len(write_slice.val)} :
                     sock_out' = [sock_out EXCEPT
                                     ![s] = @ \o SubSeq(write_slice.val, 1, k)]
               /\ replyq' = [replyq EXCEPT ![s] = Tail(@)]
               /\ writer' = writer
    /\ UNCHANGED <<fnVars, rbVars, ctl, dispatcher, inbox, sessVars, sent, processed>>

\* one iteration of the loop: recv.recv() is Ok(of_msg), the message is
\* encoded and written with write_all, which succeeds or fails (the
\* connection is broken) after part of the bytes
WriterStep(s) ==
    /\ writer[s] = "running"
    /\ replyq[s] # <<>>
    /\ LET write_slice == OfMsgInto(Head(replyq[s])) IN
          IF write_slice.tag = "panic"
          THEN /\ WriterPanics(s)
               /\ sock_out' = sock_out
          ELSE \/ /\ sock_out' = [sock_out EXCEPT ![s] = @ \o write_slice.val]
                  /\ replyq' = [replyq EXCEPT ![s] = Tail(@)]
                  /\ writer' = writer
               \/ /\ \E k \in PartialWrites :
                        sock_out' = [sock_out EXCEPT
                                        ![s] = @ \o SubSeq(write_slice.val, 1, k)]
                  /\ WriterPanics(s)
    /\ UNCHANGED <<fnVars, rbVars, ctl, dispatcher, inbox, sessVars, sent, processed>>

\* recv.recv() is Err: the queue is empty and every Sender is gone, the
\* reader's `send` and the reply_ch of every IncomingMsg still alive
WriterDisconnected(s) ==
    /\ writer[s] = "running"
    /\ replyq[s] = <<>>
    /\ reader[s] = "panicked"
    /\ \A i \in 1..Len(inbox) : inbox[i].reply_ch # s
    /\ writer' = [writer EXCEPT ![s] = "panicked"]
    /\ UNCHANGED <<fnVars, rbVars, ctl, dispatcher, inbox, sessVars, replyq, sock_out, sent, processed>>

(***************************************************************************)
(* Specification                                                           *)
(***************************************************************************)
Next ==
    \/ StartController
    \/ Dispatch
    \/ \E s \in Sessions : Accept(s)
    \/ \E s \in Sessions : ReaderStep(s)
    \/ \E s \in Sessions : ReaderIoErr(s)
    \/ \E s \in Sessions : WriterStep(s)
    \/ \E s \in Sessions : WriterDisconnected(s)

Spec == Init /\ [][Next]_vars

(***************************************************************************)
(* ctl/switch.rs: read_bytes and read_exact, one call                      *)
(***************************************************************************)
READ_BUFFER_SIZE == 128

\* the byte at position i (from 1) of the stream
StreamByte(i) == i % 251

\* the arguments len and the lengths of the streams that are tried
ReadLens == {0, 1, 8, 127, 128, 129, 256}
StreamTotals == {0, 5, 8, 128, 130, 256}
\* the sizes of partial reads that are tried, besides "all there is"
ReadChunks == {1, 3, 128}

Min(a, b) == IF a < b THEN a ELSE b

\* the call read_bytes(stream, len) starts: res = Vec::new(), read = 0
ReadInit ==
    /\ CtlInit
    /\ FnIdle
    /\ rb_pc = "outer"
    /\ rb_len \in ReadLens
    /\ rb_total \in StreamTotals
    /\ rb_end \in {"open", "fin", "rst"}
    /\ rb_pos = 0
    /\ rb_read = 0
    /\ rb_btr = 0
    /\ rb_buf = 0
    /\ rb_slice = <<>>
    /\ rb_res = <<>>
    /\ rb_zero = 0


\* read_bytes with bytes_to_read = (len - read) % READ_BUFFER_SIZE
RbOuter_ModuloBufferSize ==
    /\ rb_pc = "outer"
    /\ IF rb_read < rb_len
       THEN /\ rb_btr' = (rb_len - rb_read) % READ_BUFFER_SIZE
            /\ rb_buf' = (rb_len - rb_read) % READ_BUFFER_SIZE
            /\ rb_slice' = <<>>
            /\ rb_pc' = "inner"
       ELSE /\ rb_pc' = "ok"
            /\ UNCHANGED <<rb_btr, rb_buf, rb_slice>>
    /\ UNCHANGED <<fnVars, ctlVars, rb_len, rb_total, rb_end, rb_pos, rb_read, rb_res, rb_zero>>

\* read_bytes: `while read < len`: either the next buf_slice is set up and
\* read_exact is entered, or Ok(res) is returned
RbOuter ==
    /\ rb_pc = "outer"
    /\ IF rb_read < rb_len
       THEN /\ rb_btr' = Min(rb_len - rb_read, READ_BUFFER_SIZE)
            /\ rb_buf' = Min(rb_len - rb_read, READ_BUFFER_SIZE)
            /\ rb_slice' = <<>>
            /\ rb_pc' = "inner"
       ELSE /\ rb_pc' = "ok"
            /\ UNCHANGED <<rb_btr, rb_buf, rb_slice>>
    /\ UNCHANGED <<fnVars, ctlVars, rb_len, rb_total, rb_end, rb_pos, rb_read, rb_res, rb_zero>>

\* read_exact: reader.read(buf) is Ok(n) with n > 0: buf = &mut tmp[n..]
RbRead ==
    /\ rb_pc = "inner"
    /\ rb_buf > 0
    /\ rb_pos < rb_total
    /\ \E n \in 1..Min(rb_buf, rb_total - rb_pos) :
          /\ n \in ReadChunks \/ n = Min(rb_buf, rb_total - rb_pos)
          /\ rb_slice' = rb_slice \o [i \in 1..n |-> StreamByte(rb_pos + i)]
          /\ rb_pos' = rb_pos + n
          /\ rb_buf' = rb_buf - n
    /\ UNCHANGED <<fnVars, ctlVars, rb_pc, rb_len, rb_total, rb_end, rb_read, rb_btr, rb_res, rb_zero>>

\* read_exact: reader.read(buf) is Ok(0), the stream is at its end:
\* buf = &mut tmp[0..] is buf again, and the loop condition is as before
RbReadZero ==
    /\ rb_pc = "inner"
    /\ rb_buf > 0
    /\ rb_pos = rb_total
    /\ rb_end = "fin"
    /\ rb_zero < MaxEofReads
    /\ rb_zero' = rb_zero + 1
    /\ UNCHANGED <<fnVars, ctlVars, rb_pc, rb_len, rb_total, rb_end, rb_pos, rb_read, rb_btr,
                   rb_buf, rb_slice, rb_res>>

\* read_exact: reader.read(buf) is Err(e): read_exact returns Err(e) and
\* the expect() in read_bytes panics
RbReadErr ==
    /\ rb_pc = "inner"
    /\ rb_buf > 0
    /\ rb_pos = rb_total
    /\ rb_end = "rst"
    /\ rb_pc' = "panicked"
    /\ UNCHANGED <<fnVars, ctlVars, rb_len, rb_total, rb_end, rb_pos, rb_read, rb_btr, rb_buf,
                   rb_slice, rb_res, rb_zero>>

\* read_exact: buf is empty, Ok(()) is returned; read_bytes:
\* read += bytes_to_read; res.extend_from_slice(buf_slice)
RbFilled ==
    /\ rb_pc = "inner"
    /\ rb_buf = 0
    /\ rb_read' = rb_read + rb_btr
    /\ rb_res' = rb_res \o rb_slice
    /\ rb_pc' = "outer"
    /\ UNCHANGED <<fnVars, ctlVars, rb_len, rb_total, rb_end, rb_pos, rb_btr, rb_buf, rb_slice,
                   rb_zero>>

ReadNext ==
    \/ RbOuter
    \/ RbRead
    \/ RbReadZero
    \/ RbReadErr
    \/ RbFilled

SpecRead == ReadInit /\ [][ReadNext]_vars

(***************************************************************************)
(* Properties                                                              *)
(***************************************************************************)
IsPrefix(a, b) == Len(a) <= Len(b) /\ SubSeq(b, 1, Len(a)) = a
Last(q) == q[Len(q)]
AutoTypes == {"Hello", "EchoRequest"}

\* the events the reader of s handed (or tried to hand) to the dispatcher,
\* in the order of their frames on the socket
DeliveredMsgs(s) ==
    LET outs == [i \in 1..Len(arrived[s]) |-> ReaderOutcome(arrived[s][i])]
        kept == SelectSeq(outs, LAMBDA o : o.tag = "deliver")
    IN  [i \in 1..Len(kept) |-> kept[i].msg]
\* the events of s the dispatcher has taken, in the order it took them
ProcessedMsgs(s) ==
    [i \in 1..Len(processed[s]) |-> processed[s][i].ev.msg]

\* the places in the send history of channel ch of the messages that `by`
\* sent for the event with this xid
RepliesTo(ch, by, xid) ==
    {j \in 1..Len(sent[ch]) : sent[ch][j].by = by /\ sent[ch][j].msg.header.xid = xid}

\* message m is, on the wire, the 8 bytes (0x04, type byte, 0x00 0x08, xid)
IsBareReply(m, ttype, typeByte, xid) ==
    /\ m.header = [version |-> "V1_3", ttype |-> ttype, length |-> 8, xid |-> xid]
    /\ LET write_slice == OfMsgInto(m) IN
          /\ write_slice.tag = "ok"
          /\ write_slice.val = <<4, typeByte, 0, 8>> \o U32BE(xid)

C3_SessionOrder ==
    \A s \in Sessions :
        LET taken == ProcessedMsgs(s)
            built == DeliveredMsgs(s)
        IN  IsPrefix(taken, built)

\* two events of one session and one of another have been taken
C3_Witness ==
    \E a, b \in Sessions :
        a # b /\ Len(processed[a]) >= 2 /\ Len(processed[b]) >= 1

\* C4: an event that is neither Hello nor EchoRequest goes to the handler,
\* with the reply channel of the session it came from; the handler is called
\* for events read from that session's socket only, and for none of them twice.
C4_HandlerOncePerEvent ==
    \A s \in Sessions :
        LET built == DeliveredMsgs(s) IN
        \A i \in 1..Len(processed[s]) :
            LET e == processed[s][i] IN
            /\ e.ev.msg.header.ttype \notin AutoTypes => e.by = "handler" /\ e.ev.reply_ch = s
            /\ e.by = "handler" =>
                  /\ e.ev.msg.header.ttype \notin AutoTypes
                  /\ \E k \in 1..Len(built) : built[k] = e.ev.msg
                  /\ \A j \in 1..Len(processed[s]) :
                        (j # i /\ processed[s][j].by = "handler")
                            => processed[s][j].ev.msg # e.ev.msg

\* the handler has been called for two events of one session
C4_Witness ==
    \E s \in Sessions : \E i, j \in 1..Len(processed[s]) :
        i # j /\ processed[s][i].by = "handler" /\ processed[s][j].by = "handler"

\* in this step the reader of s read one more frame from its socket
ReadsFrame(s) == Len(arrived'[s]) = Len(arrived[s]) + 1

\* in this step the dispatcher took the event at the head of the inbox
TakesEvent == dispatcher = "running" /\ inbox # <<>> /\ processed' # processed

\* C5, as stated: a frame whose type byte is no message type (0x7F) is
\* dropped: the session's reader goes on, nothing is queued for the
\* dispatcher or for the socket, nothing is written.
C5_UnknownTypeIsDropped ==
    [][\A s \in Sessions :
          (ReadsFrame(s) /\ ~TypeFromU8(Last(arrived'[s]).hdr[2]).some)
              => /\ reader'[s] = "running"
                 /\ inbox' = inbox
                 /\ replyq' = replyq
                 /\ sock_out' = sock_out]_vars

\* C6, as stated, for the dispatcher's own replies: taking a Hello or an
\* EchoRequest whose session's output thread has ended leaves the dispatcher
\* running (the failed send is an error value, not a panic).
C6_SendAfterEndIsNoPanic ==
    [][(/\ TakesEvent
        /\ Head(inbox).msg.header.ttype \in AutoTypes
        /\ writer[Head(inbox).reply_ch] = "panicked")
           => dispatcher' = "running"]_vars

C8_HandlerPanicIsIsolated ==
    [][(TakesEvent /\ Head(inbox).msg.header.ttype \notin AutoTypes)
           => dispatcher' = "running"]_vars

\* C9, as stated: once a read of the stream has returned zero bytes, the
\* reader does not read the closed socket again.
C9_NoReadAfterEof == rb_zero <= 1

\* the bytes of the messages of a send history that the output thread can
\* encode, up to the first one it cannot
RECURSIVE ConcatEnc(_)
ConcatEnc(ms) ==
    IF ms = <<>>
    THEN <<>>
    ELSE LET bytes == OfMsgInto(Head(ms).msg) IN
         IF bytes.tag = "panic" THEN <<>> ELSE bytes.val \o ConcatEnc(Tail(ms))

\* C10: the bytes on a session's socket are a prefix of the encodings,
\* each whole and in the order of the sends, of the messages sent on its
\* reply channel; while the output thread runs they are exactly the
\* encodings of the messages it has taken from the queue, and the queue
\* holds the rest in the order of the sends.
C10_WrittenInSendOrder ==
    \A s \in Sessions :
        LET done == Len(sent[s]) - Len(replyq[s]) IN
        /\ IsPrefix(sock_out[s], ConcatEnc(sent[s]))
        /\ writer[s] = "running" =>
              /\ sock_out[s] = ConcatEnc(SubSeq(sent[s], 1, done))
              /\ replyq[s] = [i \in 1..Len(replyq[s]) |-> sent[s][done + i].msg]

\* an automatic reply and a message of the handler, sent in this order on
\* one channel, are both on the socket
C10_Witness ==
    \E s \in Sessions :
        /\ Len(sent[s]) >= 2
        /\ sent[s][1].by = "handle_hello"
        /\ sent[s][2].by = "handler"
        /\ writer[s] = "running"
        /\ Len(sock_out[s]) = 16

HdrSlices ==
    LET HdrVersionBytes == {0, 1, 2, 3, 4, 5, 6, 255}
        HdrTypeBytes == {0, 2, 29, 30, 127, 255}
        HdrLengthBytes == {<<0, 0>>, <<0, 7>>, <<0, 8>>, <<1, 2>>, <<255, 255>>}
        HdrXidBytes == {<<0, 0, 0, 0>>, <<1, 2, 3, 4>>, <<127, 255, 255, 255>>}
    IN  {<<v, t>> \o l \o x : v \in HdrVersionBytes, t \in HdrTypeBytes,
                              l \in HdrLengthBytes, x \in HdrXidBytes}
            \cup {[i \in 1..n |-> IF i = 1 THEN 4 ELSE 0] : n \in 0..9}

HdrInit ==
    /\ CtlInit
    /\ RbIdle
    /\ fn_pc = "start"
    /\ fn_in \in HdrSlices
    /\ fn_mid = <<>>
    /\ fn_out = <<>>

\* Header::try_from(&bytes[..])
HdrDecode ==
    /\ fn_pc = "start"
    /\ fn_mid' = HeaderTryFrom(fn_in)
    /\ fn_pc' = "mid"
    /\ UNCHANGED <<ctlVars, rbVars, fn_in, fn_out>>

\* Into::<Vec<u8>>::into(header), for the header that was returned
HdrEncode ==
    /\ fn_pc = "mid"
    /\ fn_mid.tag = "ok"
    /\ fn_out' = HeaderInto(fn_mid.val)
    /\ fn_pc' = "done"
    /\ UNCHANGED <<ctlVars, rbVars, fn_in, fn_mid>>

\* header.payload_length(), for the header that was returned
HdrPayloadLength ==
    /\ fn_pc = "mid"
    /\ fn_mid.tag = "ok"
    /\ fn_out' \in payload_length(fn_mid.val)
    /\ fn_pc' = "len"
    /\ UNCHANGED <<ctlVars, rbVars, fn_in, fn_mid>>

HdrNext ==
    \/ HdrDecode
    \/ HdrEncode
    \/ HdrPayloadLength

SpecHeader == HdrInit /\ [][HdrNext]_vars

\* C12: Header::try_from fails with InvalidSliceLength on a slice that is
\* not 8 bytes long, with UnknownValue for Version or for Type when byte 0
\* or byte 1 is no value of the enum, and otherwise returns the header with
\* length = bytes 2..3 and xid = bytes 4..7, big-endian; the encoding of
\* that header is the slice that was decoded.
C12_HeaderDecodeEncode ==
    /\ fn_pc \in {"mid", "done", "len"} =>
          IF Len(fn_in) # 8
          THEN fn_mid.tag = "err" /\ fn_mid.kind = "InvalidSliceLength"
          ELSE IF fn_in[1] \notin 1..5
          THEN /\ fn_mid.tag = "err" /\ fn_mid.kind = "UnknownValue"
               /\ fn_mid.ttype = "Version" /\ fn_mid.val = fn_in[1]
          ELSE IF fn_in[2] \notin 0..29
          THEN /\ fn_mid.tag = "err" /\ fn_mid.kind = "UnknownValue"
               /\ fn_mid.ttype = "Type" /\ fn_mid.val = fn_in[2]
          ELSE /\ fn_mid.tag = "ok"
               /\ VersionByte[fn_mid.val.version] = fn_in[1]
               /\ TypeByte[fn_mid.val.ttype] = fn_in[2]
               /\ fn_mid.val.length = fn_in[3] * 256 + fn_in[4]
               /\ fn_mid.val.xid = fn_in[5] * 16777216 + fn_in[6] * 65536
                                      + fn_in[7] * 256 + fn_in[8]
    /\ fn_pc = "done" => fn_out = fn_in

\* a header with a length of two non-zero bytes and an xid of four was
\* decoded and encoded again
C12_Witness ==
    /\ fn_pc = "done"
    /\ fn_in = <<4, 29, 1, 2, 1, 2, 3, 4>>
    /\ fn_mid.val.length = 258
    /\ fn_out = fn_in

\* C22: Header::try_from returns a header only for version byte 0x04; a
\* header with any other version byte is rejected, and the input thread
\* hands no event to the dispatcher for a frame that starts with it.
C22_OnlyVersion13Accepted ==
    (fn_pc \in {"mid", "done", "len"} /\ Len(fn_in) = HEADER_LENGTH /\ fn_in[1] # 4) =>
        /\ fn_mid.tag = "err"
        /\ ReaderOutcome([hdr |-> fn_in, body |-> <<>>]).tag # "deliver"

\* C13, as stated: every header Header::try_from returns has length >= 8,
\* and payload_length() returns length - 8.
C13_LengthAtLeastHeader ==
    (fn_pc \in {"mid", "done", "len"} /\ fn_mid.tag = "ok") =>
        /\ fn_mid.val.length >= HEADER_LENGTH
        /\ fn_pc = "len" =>
              fn_out = [tag |-> "ok", val |-> fn_mid.val.length - HEADER_LENGTH]

(***************************************************************************)
(* ds/mod.rs: OfMsg::generate(xid, payload), and Into<Vec<u8>> on the      *)
(* message it returned                                                     *)
(***************************************************************************)
\* the xids that are tried
GenInit ==
    /\ CtlInit
    /\ RbIdle
    /\ fn_pc = "start"
    /\ fn_in \in [payload : OfPayload, xid : {0, 1, 7, 16909060, 2147483647}]
    /\ fn_mid = <<>>
    /\ fn_out = <<>>

\* OfMsg::generate(xid, payload)
GenGenerate ==
    /\ fn_pc = "start"
    /\ fn_mid' = OfMsgGenerate(fn_in.xid, fn_in.payload)
    /\ fn_pc' = "mid"
    /\ UNCHANGED <<ctlVars, rbVars, fn_in, fn_out>>

\* Into::<Vec<u8>>::into(of_msg), for the message that was returned
GenEncode ==
    /\ fn_pc = "mid"
    /\ fn_mid.tag = "ok"
    /\ fn_out' = OfMsgInto(fn_mid.val)
    /\ fn_pc' = "done"
    /\ UNCHANGED <<ctlVars, rbVars, fn_in, fn_mid>>

GenNext ==
    \/ GenGenerate
    \/ GenEncode

SpecGenerate == GenInit /\ [][GenNext]_vars

\* C14, as stated: for every payload kind OfMsg::generate returns a message,
\* encoding it succeeds, and the encoding has header.length bytes.
C14_EncodedLengthIsHeaderLength ==
    /\ fn_pc \in {"mid", "done"} => fn_mid.tag = "ok"
    /\ fn_pc = "done" =>
          /\ fn_out.tag = "ok"
          /\ Len(fn_out.val) = fn_mid.val.header.length

(***************************************************************************)
(* ds/features.rs: SwitchFeatures::try_from on a byte slice, and           *)
(* Into<Vec<u8>> on the value it returned                                  *)
(***************************************************************************)
\* bitflags from_bits: Some iff no bit of v is outside of the flags `all`
RECURSIVE BitsWithin(_, _)
BitsWithin(v, all) ==
    IF v = 0
    THEN TRUE
    ELSE IF v % 2 = 1 /\ all % 2 = 0
    THEN FALSE
    ELSE BitsWithin(v \div 2, all \div 2)

\* struct Capabilities: the bits 0, 1, 2, 3, 5, 6 and 8
CapabilitiesAll == 1 + 2 + 4 + 8 + 32 + 64 + 256

\* impl TryFrom<&[u8]> for SwitchFeatures: every read is unwrap()ed, and a
\* read past the end of the slice is Err; seek(Current(2)) is Ok at any
\* position; from_bits(..).unwrap() panics on None.  datapath_id (u64) is
\* kept as its 8 bytes.
SwitchFeaturesTryFrom(bytes) ==
    IF Len(bytes) < 14
    THEN [tag |-> "panic"]
    ELSE IF Len(bytes) < 20
    THEN [tag |-> "panic"]
    ELSE IF ~BitsWithin(ReadU32BE(bytes, 17), CapabilitiesAll)
    THEN [tag |-> "panic"]
    ELSE IF Len(bytes) < 24
    THEN [tag |-> "panic"]
    ELSE [tag |-> "ok",
          val |-> [datapath_id  |-> SubSeq(bytes, 1, 8),
                   n_buffers    |-> ReadU32BE(bytes, 9),
                   n_tables     |-> bytes[13],
                   auxiliary_id |-> bytes[14],
                   capabilities |-> ReadU32BE(bytes, 17),
                   reserved     |-> ReadU32BE(bytes, 21)]]

\* impl Into<Vec<u8>> for SwitchFeatures
SwitchFeaturesInto(f) ==
    f.datapath_id \o U32BE(f.n_buffers) \o <<f.n_tables, f.auxiliary_id>> \o U16BE(0)
        \o U32BE(f.capabilities) \o U32BE(f.reserved)

\* the slices that are tried: every length from 0 to MaxFeatLen, filled with
\* one of these bytes, the capabilities (bytes 16..19) with one of these words
MaxFeatLen == 26
FeatSlices ==
    LET FeatFill == {0, 1, 127}
        FeatCaps == {<<0, 0, 0, 0>>, <<0, 0, 1, 111>>, <<0, 0, 0, 16>>, <<0, 1, 0, 0>>}
    IN  {[i \in 1..n |-> IF i \in 17..20 THEN c[i - 16] ELSE b] :
            n \in 0..MaxFeatLen, b \in FeatFill, c \in FeatCaps}

FeatInit ==
    /\ CtlInit
    /\ RbIdle
    /\ fn_pc = "start"
    /\ fn_in \in FeatSlices
    /\ fn_mid = <<>>
    /\ fn_out = <<>>

\* SwitchFeatures::try_from(&bytes[..])
FeatDecode ==
    /\ fn_pc = "start"
    /\ fn_mid' = SwitchFeaturesTryFrom(fn_in)
    /\ fn_pc' = "mid"
    /\ UNCHANGED <<ctlVars, rbVars, fn_in, fn_out>>

\* Into::<Vec<u8>>::into(features), for the value that was returned
FeatEncode ==
    /\ fn_pc = "mid"
    /\ fn_mid.tag = "ok"
    /\ fn_out' = SwitchFeaturesInto(fn_mid.val)
    /\ fn_pc' = "done"
    /\ UNCHANGED <<ctlVars, rbVars, fn_in, fn_mid>>

FeatNext ==
    \/ FeatDecode
    \/ FeatEncode

SpecFeatures == FeatInit /\ [][FeatNext]_vars

\* C15, as stated, for the decoder of SwitchFeatures: decoding a slice of
\* any length and content returns a value or a typed error, never a panic.
C15_DecoderNeverPanics ==
    fn_pc \in {"mid", "done"} => fn_mid.tag \in {"ok", "err"}

(***************************************************************************)
(* ds/ports.rs: PortNumber::try_from(u32), and Into<u32> on its result     *)
(***************************************************************************)
\* a u32 is kept as <<high 16 bits, low 16 bits>>: the reserved port numbers
\* are above 2^31
\* enum PortNo, by discriminant: 0xffffff00, 0xfffffff8 .. 0xffffffff
PortNoValue ==
    [Max        |-> <<65535, 65280>>,
     InPort     |-> <<65535, 65528>>,
     Table      |-> <<65535, 65529>>,
     Normal     |-> <<65535, 65530>>,
     Flood      |-> <<65535, 65531>>,
     All        |-> <<65535, 65532>>,
     Controller |-> <<65535, 65533>>,
     Local      |-> <<65535, 65534>>,
     Any        |-> <<65535, 65535>>]

\* PortNo::from_u32 (derive Primitive): Some(variant) or None
PortNoFromU32(p) ==
    IF \E r \in DOMAIN PortNoValue : PortNoValue[r] = p
    THEN [some |-> TRUE, val |-> CHOOSE r \in DOMAIN PortNoValue : PortNoValue[r] = p]
    ELSE [some |-> FALSE]

\* Into<u32> for PortNumber that gives 0xffffffff (Any) for every
\* reserved port
PortNumberInto_ReservedIsAny(pn) ==
    IF pn.kind = "Reserved" THEN PortNoValue["Any"] ELSE pn.port

\* impl TryFrom<u32> for PortNumber
PortNumberTryFrom(port_no) ==
    IF port_no = <<0, 0>>
    THEN [tag |-> "err", kind |-> "IllegalValue", val |-> 0, ttype |-> "PortNumber"]
    ELSE LET port == PortNoFromU32(port_no) IN
         IF port.some
         THEN [tag |-> "ok", val |-> [kind |-> "Reserved", port |-> port.val]]
         ELSE [tag |-> "ok", val |-> [kind |-> "NormalPort", port |-> port_no]]

\* impl Into<u32> for PortNumber
PortNumberInto(pn) ==
    IF pn.kind = "Reserved" THEN PortNoValue[pn.port] ELSE pn.port

\* the port numbers that are tried
PortInputs ==
    LET PortHighs == {0, 1, 32768, 65535}
        PortLows == {0, 1, 2, 255, 65279, 65280, 65281} \cup (65527..65535)
    IN  {<<h, l>> : h \in PortHighs, l \in PortLows}

PortInit ==
    /\ CtlInit
    /\ RbIdle
    /\ fn_pc = "start"
    /\ fn_in \in PortInputs
    /\ fn_mid = <<>>
    /\ fn_out = <<>>

\* PortNumber::try_from(port_no)
PortTryFrom ==
    /\ fn_pc = "start"
    /\ fn_mid' = PortNumberTryFrom(fn_in)
    /\ fn_pc' = "mid"
    /\ UNCHANGED <<ctlVars, rbVars, fn_in, fn_out>>

\* Into::<u32>::into(port_number), for the value that was returned
PortInto ==
    /\ fn_pc = "mid"
    /\ fn_mid.tag = "ok"
    /\ fn_out' = PortNumberInto(fn_mid.val)
    /\ fn_pc' = "done"
    /\ UNCHANGED <<ctlVars, rbVars, fn_in, fn_mid>>

PortNext ==
    \/ PortTryFrom
    \/ PortInto

SpecPort == PortInit /\ [][PortNext]_vars

\* the nine reserved port numbers, 0xffffff00 and 0xfffffff8 .. 0xffffffff
ReservedPorts == {<<65535, 65280>>} \cup {<<65535, l>> : l \in 65528..65535}

\* C16: PortNumber::try_from(p) is Err(IllegalValue(0, PortNumber)) for
\* p = 0, Reserved(r) for the nine reserved values, NormalPort(p) for every
\* other p; the result converted back to u32 is p.
C16_PortNumberOfU32 ==
    /\ fn_pc \in {"mid", "done"} =>
          IF fn_in = <<0, 0>>
          THEN fn_mid = [tag |-> "err", kind |-> "IllegalValue", val |-> 0,
                         ttype |-> "PortNumber"]
          ELSE IF fn_in \in ReservedPorts
          THEN /\ fn_mid.tag = "ok"
               /\ fn_mid.val.kind = "Reserved"
               /\ PortNoValue[fn_mid.val.port] = fn_in
          ELSE fn_mid = [tag |-> "ok", val |-> [kind |-> "NormalPort", port |-> fn_in]]
    /\ fn_pc = "done" => fn_out = fn_in
    /\ Cardinality(ReservedPorts \cap PortInputs) = 9

\* 0xfffffffd was converted to Reserved(Controller) and back
C16_Witness ==
    /\ fn_pc = "done"
    /\ fn_in = <<65535, 65533>>
    /\ fn_mid.val = [kind |-> "Reserved", port |-> "Controller"]
    /\ fn_out = <<65535, 65533>>

(***************************************************************************)
(* ds/flow_match.rs: Match, TlvMatch, OxmTlvHeader and three of the match  *)
(* payloads (InPort, VlanVid, VlanPcp)                                     *)
(***************************************************************************)
\* a u32 read big-endian at bytes[i], as <<high 16 bits, low 16 bits>>, and
\* written back
ReadU32Halves(b, i) == <<b[i] * 256 + b[i + 1], b[i + 2] * 256 + b[i + 3]>>
U32HalvesBE(p) == U16BE(p[1]) \o U16BE(p[2])

Zeros(n) == [i \in 1..n |-> 0]

\* enum MatchType
MatchTypeByte == [Standard |-> 0, OXM |-> 1]

\* enum OxmClass, the discriminants
OxmClasses == {0, 1, 32768, 65535}

\* bitfield OxmTlvHeader(u32), kept as the 4 bytes of the u32, big-endian:
\* class = bits 31..16, field = bits 15..9, hasmask = bit 8, length = bits 7..0
get_oxm_class(h) == h[1] * 256 + h[2]
get_oxm_field(h) == h[3] \div 2
get_length(h) == h[4]

\* the payload decoders PayloadInPort (field 0), PayloadVlanVId (field 6)
\* and PayloadVlanPcp (field 7): each unwrap()s its read of the slice.  The
\* other fields 1..39 are not modelled and are drawn by no input.
MatchPayloadTryFrom(field, match_slice) ==
    CASE field = 0 ->
            IF Len(match_slice) < 4
            THEN [tag |-> "panic"]
            ELSE LET port == PortNumberTryFrom(ReadU32Halves(match_slice, 1)) IN
                 IF port.tag = "ok"
                 THEN [tag |-> "ok", val |-> [kind |-> "InPort", val |-> port.val]]
                 ELSE port
      [] field = 6 ->
            IF Len(match_slice) < 2
            THEN [tag |-> "panic"]
            ELSE [tag |-> "ok",
                  val |-> [kind |-> "VlanVId", val |-> ReadU16BE(match_slice, 1)]]
      [] field = 7 ->
            IF Len(match_slice) < 1
            THEN [tag |-> "panic"]
            ELSE [tag |-> "ok", val |-> [kind |-> "VlanPcp", val |-> match_slice[1]]]

\* impl Into<Vec<u8>> for MatchPayload
MatchPayloadInto(p) ==
    CASE p.kind = "InPort" -> U32HalvesBE(PortNumberInto(p.val))
      [] p.kind = "VlanVId" -> U16BE(p.val)
      [] p.kind = "VlanPcp" -> <<p.val>>

\* TlvMatch::try_from(tlv_header, match_slice)
TlvMatchTryFrom(tlv_header, match_slice) ==
    IF get_oxm_class(tlv_header) \notin OxmClasses
    THEN [tag |-> "err", kind |-> "UnknownValue", val |-> get_oxm_class(tlv_header),
          ttype |-> "OxmClass"]
    ELSE IF get_oxm_field(tlv_header) > 39
    THEN [tag |-> "err", kind |-> "UnknownValue", val |-> get_oxm_field(tlv_header),
          ttype |-> "OfbMatchFields"]
    ELSE LET payload == MatchPayloadTryFrom(get_oxm_field(tlv_header), match_slice) IN
         IF payload.tag = "ok"
         THEN [tag |-> "ok", val |-> [tlv_header |-> tlv_header, payload |-> payload.val]]
         ELSE payload

\* impl Into<Vec<u8>> for TlvMatch
TlvMatchInto(t) == t.tlv_header \o MatchPayloadInto(t.payload)

MATCH_LENGTH == 8

\* Match::try_from, the loop `while bytes_remaining > 0`, from cursor
\* position pos.  bytes_remaining is a usize: -1 stands for a value that
\* has wrapped around below zero (a build without overflow checks), which
\* no slice is long enough to count down; with overflow checks (wraps
\* FALSE) the subtraction panics.
RECURSIVE MatchLoop(_, _, _, _, _)
MatchLoop(bytes, pos, bytes_remaining, matches, wraps) ==
    IF bytes_remaining = 0
    THEN [tag |-> "ok", val |-> matches]
    ELSE IF pos + 4 > Len(bytes)
    THEN [tag |-> "panic"]
    ELSE LET tlv_header == SubSeq(bytes, pos + 1, pos + 4)
             len == get_length(tlv_header)
         IN  IF pos + 4 + len > Len(bytes)
             THEN [tag |-> "panic"]
             ELSE LET tlv_match == TlvMatchTryFrom(tlv_header,
                                                   SubSeq(bytes, pos + 5, pos + 4 + len))
                  IN  IF tlv_match.tag # "ok"
                      THEN tlv_match
                      ELSE IF bytes_remaining = -1
                      THEN MatchLoop(bytes, pos + 4 + len, -1,
                                     Append(matches, tlv_match.val), wraps)
                      ELSE IF len > bytes_remaining
                      THEN IF wraps
                           THEN MatchLoop(bytes, pos + 4 + len, -1,
                                          Append(matches, tlv_match.val), wraps)
                           ELSE [tag |-> "panic"]
                      ELSE MatchLoop(bytes, pos + 4 + len, bytes_remaining - len,
                                     Append(matches, tlv_match.val), wraps)

\* impl TryFrom<&[u8]> for Match, in a build whose arithmetic wraps or not
MatchDecode(bytes, wraps) ==
    IF Len(bytes) < 2
    THEN [tag |-> "panic"]
    ELSE LET ttype_raw == ReadU16BE(bytes, 1) IN
         IF ttype_raw \notin {0, 1}
         THEN [tag |-> "err", kind |-> "UnknownValue", val |-> ttype_raw,
               ttype |-> "MatchType"]
         ELSE IF ttype_raw # MatchTypeByte["Standard"]
         THEN [tag |-> "err", kind |-> "UnsupportedValue", val |-> ttype_raw,
               ttype |-> "MatchType"]
         ELSE IF Len(bytes) < 4
         THEN [tag |-> "panic"]
         ELSE LET length == ReadU16BE(bytes, 3)
                  matches == IF length >= MATCH_LENGTH
                             THEN MatchLoop(bytes, 4, length - MATCH_LENGTH, <<>>, wraps)
                             ELSE IF wraps
                             THEN MatchLoop(bytes, 4, -1, <<>>, wraps)
                             ELSE [tag |-> "panic"]
              IN  IF matches.tag = "ok"
                  THEN [tag |-> "ok",
                        val |-> [ttype |-> "Standard", length |-> length,
                                 matches |-> matches.val]]
                  ELSE matches

\* the outcomes of Match::try_from(bytes) over the two kinds of build
MatchTryFrom(bytes) == {MatchDecode(bytes, wraps) : wraps \in BOOLEAN}

RECURSIVE TlvMatchesInto(_)
TlvMatchesInto(matches) ==
    IF matches = <<>>
    THEN <<>>
    ELSE TlvMatchInto(Head(matches)) \o TlvMatchesInto(Tail(matches))

\* impl Into<Vec<u8>> for Match: type, length, the TLVs, then
\* (length + 7) / 8 * 8 - length zero bytes
MatchInto(m) ==
    U16BE(MatchTypeByte[m.ttype]) \o U16BE(m.length) \o TlvMatchesInto(m.matches)
        \o Zeros(((m.length + 7) \div 8) * 8 - m.length)

(***************************************************************************)
(* SpecMatch: Match::try_from followed by Into<Vec<u8>>, on bounded slices *)
(***************************************************************************)
\* the slices that are tried: a type, a length, up to two encoded TLVs
\* (InPort 2, InPort 0 (illegal port), InPort Controller, VlanVid 5,
\* VlanPcp 3, an unknown class, an unknown field), then padding
MatchSlices ==
    LET MatchTlvs ==
            { <<128, 0, 0, 4, 0, 0, 0, 2>>,
              <<128, 0, 0, 4, 0, 0, 0, 0>>,
              <<128, 0, 0, 4, 255, 255, 255, 253>>,
              <<128, 0, 12, 2, 0, 5>>,
              <<128, 0, 14, 1, 3>>,
              <<0, 2, 0, 4, 0, 0, 0, 2>>,
              <<128, 0, 254, 4, 0, 0, 0, 2>> }
        MatchTlvSeqs ==
            {<<>>} \cup MatchTlvs \cup {x \o y : x \in MatchTlvs, y \in MatchTlvs}
    IN  { U16BE(t) \o U16BE(l) \o tlvs \o Zeros(p) :
            t \in {0, 1, 2}, l \in {4, 8, 9, 10, 12, 14, 16},
            tlvs \in MatchTlvSeqs, p \in {0, 2, 4} }
        \cup {<<>>, <<0>>, <<0, 0>>, <<0, 0, 0>>}

MatchInit ==
    /\ CtlInit
    /\ RbIdle
    /\ fn_pc = "in"
    /\ fn_in \in MatchSlices
    /\ fn_mid = <<>>
    /\ fn_out = <<>>

\* let m = Match::try_from(&bytes[..])
MatchTryFromStep ==
    /\ fn_pc = "in"
    /\ fn_mid' \in MatchTryFrom(fn_in)
    /\ fn_pc' = "mid"
    /\ UNCHANGED <<ctlVars, rbVars, fn_in, fn_out>>

\* let out: Vec<u8> = m.into()
MatchIntoStep ==
    /\ fn_pc = "mid"
    /\ fn_mid.tag = "ok"
    /\ fn_out' = MatchInto(fn_mid.val)
    /\ fn_pc' = "done"
    /\ UNCHANGED <<ctlVars, rbVars, fn_in, fn_mid>>

MatchNext == MatchTryFromStep \/ MatchIntoStep

SpecMatch == MatchInit /\ [][MatchNext]_vars


\* the bytes the TLV loop of Match::try_from has read for the TLVs it
\* returned: for each, the 4 bytes of read_u32 and the get_length() bytes
\* of the seek
RECURSIVE TlvBytesRead(_)
TlvBytesRead(matches) ==
    IF matches = <<>>
    THEN 0
    ELSE 4 + get_length(Head(matches).tlv_header) + TlvBytesRead(Tail(matches))

\* C24: Match::try_from consumes exactly the declared length: when it
\* returns a Match, the 4 bytes of type and length plus, for each TLV, its
\* 4-byte header and its payload add up to the declared length.
C24_MatchConsumesDeclaredLength ==
    (fn_pc \in {"mid", "done"} /\ fn_mid.tag = "ok") =>
        4 + TlvBytesRead(fn_mid.val.matches) = fn_mid.val.length

\* C17: the bytes produced by encoding a Match are a multiple of 8 long,
\* as many as its declared length rounded up to the next multiple of 8, and
\* every byte past the declared length is zero.
C17_EncodedMatchIsPadded ==
    fn_pc = "done" =>
        /\ Len(fn_out) % 8 = 0
        /\ Len(fn_out) = ((fn_mid.val.length + 7) \div 8) * 8
        /\ \A i \in (fn_mid.val.length + 1)..Len(fn_out) : fn_out[i] = 0

(***************************************************************************)
(* ds/flow_instructions.rs: InstructionHeader and its payloads             *)
(***************************************************************************)
\* enum InstructionType
InstructionTypeCode ==
    [GotoTable |-> 1, WriteMetadata |-> 2, WriteActions |-> 3, ApplyActions |-> 4,
     Clearactions |-> 5, Meter |-> 6, Experimenter |-> 65535]

\* impl Into<Vec<u8>> for InstructionPayload and for each payload struct.
\* The actions of WriteActions and ApplyActions are a Vec<()>: the body of
\* the loop over them is unimplemented!().
InstructionPayloadInto(p) ==
    CASE p.kind = "GotoTable" -> [tag |-> "ok", val |-> <<p.table_id, 0, 0, 0>>]
      [] p.kind = "WriteMetaData" ->
            [tag |-> "ok", val |-> Zeros(4) \o p.metadata \o p.metadata_mask]
      [] p.kind \in {"WriteActions", "ApplyActions"} ->
            IF p.actions = <<>>
            THEN [tag |-> "ok", val |-> Zeros(4)]
            ELSE [tag |-> "panic"]
      [] p.kind = "ClearActions" -> [tag |-> "ok", val |-> Zeros(4)]
      [] p.kind = "Meter" -> [tag |-> "ok", val |-> U32HalvesBE(p.meter_id)]

\* impl Into<Vec<u8>> for InstructionHeader
InstructionHeaderInto(i) ==
    LET payload == InstructionPayloadInto(i.payload) IN
    IF payload.tag = "ok"
    THEN [tag |-> "ok",
          val |-> U16BE(InstructionTypeCode[i.ttype]) \o U16BE(i.len) \o payload.val]
    ELSE payload

\* impl TryFrom<&[u8]> for InstructionHeader, with the try_from of each
\* payload struct; a failed read that is chain_err()ed is the error "Msg"
InstructionHeaderTryFrom(bytes) ==
    IF Len(bytes) < 2
    THEN [tag |-> "err", kind |-> "Msg"]
    ELSE LET raw_ttype == ReadU16BE(bytes, 1) IN
    IF \A t \in DOMAIN InstructionTypeCode : InstructionTypeCode[t] # raw_ttype
    THEN [tag |-> "err", kind |-> "UnknownValue", val |-> raw_ttype,
          ttype |-> "InstructionType"]
    ELSE IF Len(bytes) < 4
    THEN [tag |-> "err", kind |-> "Msg"]
    ELSE LET ttype == CHOOSE t \in DOMAIN InstructionTypeCode :
                          InstructionTypeCode[t] = raw_ttype
             length == ReadU16BE(bytes, 3)
             payload_slice == SubSeq(bytes, 5, Len(bytes))
             Ok(payload) == [tag |-> "ok",
                             val |-> [ttype |-> ttype, len |-> length,
                                      payload |-> payload]]
         IN  CASE ttype = "GotoTable" ->
                    IF Len(payload_slice) < 1
                    THEN [tag |-> "err", kind |-> "Msg"]
                    ELSE Ok([kind |-> "GotoTable", table_id |-> payload_slice[1]])
               [] ttype = "WriteMetadata" ->
                    IF Len(payload_slice) < 4
                    THEN [tag |-> "panic"]
                    ELSE IF Len(payload_slice) < 20
                    THEN [tag |-> "err", kind |-> "Msg"]
                    ELSE Ok([kind |-> "WriteMetaData",
                             metadata |-> SubSeq(payload_slice, 5, 12),
                             metadata_mask |-> SubSeq(payload_slice, 13, 20)])
               [] ttype \in {"WriteActions", "ApplyActions"} -> [tag |-> "panic"]
               [] ttype = "Clearactions" -> Ok([kind |-> "ClearActions"])
               [] ttype = "Meter" ->
                    IF Len(payload_slice) < 4
                    THEN [tag |-> "err", kind |-> "Msg"]
                    ELSE Ok([kind |-> "Meter",
                             meter_id |-> ReadU32Halves(payload_slice, 1)])
               [] ttype = "Experimenter" ->
                    [tag |-> "err", kind |-> "UnsupportedValue", val |-> raw_ttype,
                     ttype |-> "InstructionType"]

(***************************************************************************)
(* ds/flow_mod.rs: FlowMod.  u64 fields are kept as their 8 bytes and u32  *)
(* fields as <<high 16 bits, low 16 bits>>.                                *)
(***************************************************************************)
\* enum FlowModCommand
FlowModCommandByte ==
    [Add |-> 0, Modify |-> 1, ModifyStrict |-> 2, Delete |-> 3, DeleteStrict |-> 4]

RECURSIVE InstructionsInto(_)
InstructionsInto(instructions) ==
    IF instructions = <<>>
    THEN [tag |-> "ok", val |-> <<>>]
    ELSE LET first == InstructionHeaderInto(Head(instructions))
             rest == InstructionsInto(Tail(instructions))
         IN  IF first.tag = "ok" /\ rest.tag = "ok"
             THEN [tag |-> "ok", val |-> first.val \o rest.val]
             ELSE [tag |-> "panic"]

\* impl Into<Vec<u8>> for FlowMod
FlowModInto(f) ==
    LET instructions == InstructionsInto(f.instructions) IN
    IF instructions.tag = "ok"
    THEN [tag |-> "ok",
          val |-> f.cookie \o f.cookie_mask
                  \o <<f.table_id, FlowModCommandByte[f.command]>>
                  \o U16BE(f.idle_timeout) \o U16BE(f.hard_timeout) \o U16BE(f.priority)
                  \o U32HalvesBE(f.buffer_id) \o U32HalvesBE(PortNumberInto(f.out_port))
                  \o U32HalvesBE(f.out_group) \o U16BE(f.flags)
                  \o U16BE(0)
                  \o MatchInto(f.mmatch) \o instructions.val]
    ELSE instructions

\* Match::read_len with the cursor at pos: the u16 at pos + 2, rounded up
\* to a multiple of 8 in u16 arithmetic, the cursor left at pos
Match_read_len(bytes, pos, wraps) ==
    IF pos + 4 > Len(bytes)
    THEN [tag |-> "err", kind |-> "CouldNotReadLength", val |-> 2, ttype |-> "Match"]
    ELSE LET len == ReadU16BE(bytes, pos + 3) IN
         IF len + 7 <= 65535
         THEN [tag |-> "ok", val |-> ((len + 7) \div 8) * 8]
         ELSE IF wraps
         THEN [tag |-> "ok", val |-> 0]
         ELSE [tag |-> "panic"]

\* FlowMod::try_from, the loop `while bytes_left > cursor.position()`;
\* bytes_left is a u64, -1 stands for a value wrapped around below zero
RECURSIVE FlowModInstructions(_, _, _, _, _)
FlowModInstructions(bytes, pos, bytes_left, instructions, wraps) ==
    IF bytes_left # -1 /\ bytes_left <= pos
    THEN [tag |-> "ok", val |-> instructions]
    ELSE IF pos + 4 > Len(bytes)
    THEN [tag |-> "panic"]
    ELSE LET instruction_len == ReadU16BE(bytes, pos + 3) IN
         IF pos + instruction_len > Len(bytes)
         THEN [tag |-> "panic"]
         ELSE LET instruction ==
                      InstructionHeaderTryFrom(SubSeq(bytes, pos + 1, pos + instruction_len))
              IN  IF instruction.tag # "ok"
                  THEN instruction
                  ELSE IF bytes_left = -1 \/ instruction_len > bytes_left
                  THEN IF wraps
                       THEN FlowModInstructions(bytes, pos + instruction_len, -1,
                                                Append(instructions, instruction.val), wraps)
                       ELSE [tag |-> "panic"]
                  ELSE FlowModInstructions(bytes, pos + instruction_len,
                                           bytes_left - instruction_len,
                                           Append(instructions, instruction.val), wraps)

\* impl TryFrom<&[u8]> for FlowMod, in a build whose arithmetic wraps or not
FlowModDecode(bytes, wraps) ==
    IF Len(bytes) < 18
    THEN [tag |-> "panic"]
    ELSE IF \A c \in DOMAIN FlowModCommandByte : FlowModCommandByte[c] # bytes[18]
    THEN [tag |-> "err", kind |-> "UnknownValue", val |-> bytes[18],
          ttype |-> "FlowModCommand"]
    ELSE IF Len(bytes) < 32
    THEN [tag |-> "panic"]
    ELSE LET out_port == PortNumberTryFrom(ReadU32Halves(bytes, 29)) IN
    IF out_port.tag # "ok"
    THEN out_port
    ELSE IF Len(bytes) < 38 \/ ReadU16BE(bytes, 37) >= 32
    THEN [tag |-> "panic"]
    ELSE LET mmatch_slice_len == Match_read_len(bytes, 38, wraps) IN
    IF mmatch_slice_len.tag # "ok"
    THEN mmatch_slice_len
    ELSE IF 38 + mmatch_slice_len.val > Len(bytes)
    THEN [tag |-> "panic"]
    ELSE LET mmatch == MatchDecode(SubSeq(bytes, 39, 38 + mmatch_slice_len.val), wraps) IN
    IF mmatch.tag # "ok"
    THEN mmatch
    ELSE LET instructions == FlowModInstructions(bytes, 38 + mmatch_slice_len.val,
                                                 Len(bytes), <<>>, wraps)
         IN  IF instructions.tag # "ok"
             THEN instructions
             ELSE [tag |-> "ok",
                   val |-> [cookie |-> SubSeq(bytes, 1, 8),
                            cookie_mask |-> SubSeq(bytes, 9, 16),
                            table_id |-> bytes[17],
                            command |-> CHOOSE c \in DOMAIN FlowModCommandByte :
                                            FlowModCommandByte[c] = bytes[18],
                            idle_timeout |-> ReadU16BE(bytes, 19),
                            hard_timeout |-> ReadU16BE(bytes, 21),
                            priority |-> ReadU16BE(bytes, 23),
                            buffer_id |-> ReadU32Halves(bytes, 25),
                            out_port |-> out_port.val,
                            out_group |-> ReadU32Halves(bytes, 33),
                            flags |-> ReadU16BE(bytes, 37),
                            mmatch |-> mmatch.val,
                            instructions |-> instructions.val]]

\* the outcomes of FlowMod::try_from(bytes) over the two kinds of build
FlowModTryFrom(bytes) == {FlowModDecode(bytes, wraps) : wraps \in BOOLEAN}

(***************************************************************************)
(* SpecFlowMod: Into<Vec<u8>> for FlowMod followed by FlowMod::try_from    *)
(***************************************************************************)
\* the FlowMods that are encoded.  Their matches are the two Match::try_from
\* returns for 00 00 00 0c 80 00 00 04 00 00 00 02 00 00 00 00 (one InPort
\* TLV, port 2) and for 00 00 00 08 (no TLV); "Output" stands for the one
\* element an action list is given.
FlowMods ==
    LET InPort == [tlv_header |-> <<128, 0, 0, 4>>,
                   payload |-> [kind |-> "InPort",
                                val |-> [kind |-> "NormalPort", port |-> <<0, 2>>]]]
        GotoTable == [ttype |-> "GotoTable", len |-> 8,
                      payload |-> [kind |-> "GotoTable", table_id |-> 1]]
        Meter == [ttype |-> "Meter", len |-> 8,
                  payload |-> [kind |-> "Meter", meter_id |-> <<0, 7>>]]
        Clear == [ttype |-> "Clearactions", len |-> 8,
                  payload |-> [kind |-> "ClearActions"]]
        Apply(actions) == [ttype |-> "ApplyActions", len |-> 8 + 16 * Len(actions),
                           payload |-> [kind |-> "ApplyActions", actions |-> actions]]
    IN  [cookie : {<<0, 0, 0, 0, 0, 0, 0, 1>>},
         cookie_mask : {Zeros(8)},
         table_id : {0},
         command : {"Add", "DeleteStrict"},
         idle_timeout : {0},
         hard_timeout : {60},
         priority : {32768},
         buffer_id : {<<65535, 65535>>},
         out_port : {[kind |-> "NormalPort", port |-> <<0, 2>>],
                     [kind |-> "Reserved", port |-> "Any"]},
         out_group : {<<65535, 65535>>},
         flags : {0, 1},
         mmatch : {[ttype |-> "Standard", length |-> 12, matches |-> <<InPort>>],
                   [ttype |-> "Standard", length |-> 8, matches |-> <<>>]},
         instructions : { <<>>, <<GotoTable>>, <<Meter>>, <<Clear>>, <<Apply(<<>>)>>,
                          <<Apply(<<"Output">>)>>, <<GotoTable, Meter>> }]

\* slices laid out as FlowMod::try_from reads them, the match directly
\* after the flags, and their prefixes down to 36 bytes
FlowModSlices ==
    LET Encoded == { FlowModInto(f).val : f \in { g \in FlowMods : FlowModInto(g).tag = "ok" } }
        Shifted == { SubSeq(b, 1, 38) \o SubSeq(b, 41, Len(b)) : b \in Encoded }
        Prefixes(b) == { SubSeq(b, 1, n) : n \in 36..Len(b) }
    IN  Shifted \cup UNION { Prefixes(b) : b \in { s \in Shifted : s[18] = 0 /\ s[38] = 0 } }

FlowModInit ==
    /\ CtlInit
    /\ RbIdle
    /\ fn_out = <<>>
    /\ \/ /\ fn_pc = "in"
          /\ fn_in \in FlowMods
          /\ fn_mid = <<>>
       \/ /\ fn_pc = "mid"
          /\ fn_in = <<>>
          /\ fn_mid \in { [tag |-> "ok", val |-> s] : s \in FlowModSlices }

\* let bytes: Vec<u8> = flow_mod.into()
FlowModIntoStep ==
    /\ fn_pc = "in"
    /\ fn_mid' = FlowModInto(fn_in)
    /\ fn_pc' = "mid"
    /\ UNCHANGED <<ctlVars, rbVars, fn_in, fn_out>>

\* FlowMod::try_from(&bytes[..])
FlowModTryFromStep ==
    /\ fn_pc = "mid"
    /\ fn_mid.tag = "ok"
    /\ fn_out' \in FlowModTryFrom(fn_mid.val)
    /\ fn_pc' = "done"
    /\ UNCHANGED <<ctlVars, rbVars, fn_in, fn_mid>>

FlowModNext == FlowModIntoStep \/ FlowModTryFromStep

SpecFlowMod == FlowModInit /\ [][FlowModNext]_vars

\* C18: decoding the bytes produced by encoding a FlowMod returns a FlowMod
\* equal to the original.
C18_FlowModRoundTrip ==
    (fn_pc = "done" /\ fn_in # <<>>) => fn_out = [tag |-> "ok", val |-> fn_in]

(***************************************************************************)
(* ds/actions.rs: ActionHeader with the payloads Output and Group;         *)
(* ds/packet_out.rs: PacketOut                                             *)
(***************************************************************************)
\* enum ActionType
ActionTypeCode ==
    [Output |-> 0, CopyTtlOut |-> 11, CopyTtlIn |-> 12, SetMplsTtl |-> 15,
     DecMplsTtl |-> 16, PushVlan |-> 17, PopVlan |-> 18, PushMpls |-> 19,
     PopMpls |-> 20, SetQueue |-> 21, Group |-> 22, SetNwTtl |-> 23,
     DecNwTtl |-> 24, SetField |-> 25, PushPbb |-> 26, PopPbb |-> 27]

\* impl Into<ActionHeader> for PayloadOutput:
\* len = ACTION_HEADER_LEN + PAYLOAD_OUTPUT_LEN
PayloadOutputIntoActionHeader(port, max_len) ==
    [ttype |-> "Output", len |-> 4 + 12,
     payload |-> [kind |-> "Output", port |-> port, max_len |-> max_len]]

\* impl Into<Vec<u8>> for ActionHeader, for PayloadOutput and PayloadGroup
ActionHeaderInto(a) ==
    U16BE(ActionTypeCode[a.ttype]) \o U16BE(a.len)
        \o CASE a.payload.kind = "Output" ->
                    U32HalvesBE(PortNumberInto(a.payload.port))
                        \o U16BE(a.payload.max_len) \o Zeros(6)
             [] a.payload.kind = "Group" -> U32HalvesBE(a.payload.group_id)

\* impl TryFrom<&[u8]> for ActionHeader with try_from_action_payload, for
\* the types Output and Group; the other types are drawn by no input
ActionHeaderTryFrom(bytes) ==
    IF Len(bytes) < 2
    THEN [tag |-> "panic"]
    ELSE LET raw_ttype == ReadU16BE(bytes, 1) IN
    IF \A t \in DOMAIN ActionTypeCode : ActionTypeCode[t] # raw_ttype
    THEN [tag |-> "err", kind |-> "UnknownValue", val |-> raw_ttype,
          ttype |-> "ActionType"]
    ELSE IF Len(bytes) < 4
    THEN [tag |-> "panic"]
    ELSE LET ttype == CHOOSE t \in DOMAIN ActionTypeCode : ActionTypeCode[t] = raw_ttype
             len == ReadU16BE(bytes, 3)
             payload == SubSeq(bytes, 5, Len(bytes))
             Ok(p) == [tag |-> "ok", val |-> [ttype |-> ttype, len |-> len, payload |-> p]]
         IN  CASE ttype = "Output" ->
                    IF Len(payload) < 4
                    THEN [tag |-> "panic"]
                    ELSE LET port == PortNumberTryFrom(ReadU32Halves(payload, 1)) IN
                         IF port.tag # "ok"
                         THEN port
                         ELSE IF Len(payload) < 6
                         THEN [tag |-> "panic"]
                         ELSE Ok([kind |-> "Output", port |-> port.val,
                                  max_len |-> ReadU16BE(payload, 5)])
               [] ttype = "Group" ->
                    IF Len(payload) < 4
                    THEN [tag |-> "panic"]
                    ELSE Ok([kind |-> "Group", group_id |-> ReadU32Halves(payload, 1)])

RECURSIVE SumOfLens(_)
SumOfLens(actions) ==
    IF actions = <<>> THEN 0 ELSE Head(actions).len + SumOfLens(Tail(actions))

\* calc_actions_len: the sum of the len fields in a u16, which panics or
\* wraps around when it passes 65535
calc_actions_len(actions) ==
    IF SumOfLens(actions) <= 65535
    THEN {[tag |-> "ok", val |-> SumOfLens(actions)]}
    ELSE {[tag |-> "panic"], [tag |-> "ok", val |-> SumOfLens(actions) % 65536]}

\* PacketOut::new
PacketOutNew(buffer_id, in_port, actions, data) ==
    { IF actions_len.tag = "ok"
      THEN [tag |-> "ok",
            val |-> [buffer_id |-> buffer_id, in_port |-> in_port,
                     actions_len |-> actions_len.val, actions |-> actions,
                     data |-> data]]
      ELSE actions_len : actions_len \in calc_actions_len(actions) }

RECURSIVE ActionsInto(_)
ActionsInto(actions) ==
    IF actions = <<>>
    THEN <<>>
    ELSE ActionHeaderInto(Head(actions)) \o ActionsInto(Tail(actions))

\* impl Into<Vec<u8>> for PacketOut
PacketOutInto(p) ==
    U32HalvesBE(p.buffer_id) \o U32HalvesBE(PortNumberInto(p.in_port))
        \o U16BE(p.actions_len) \o Zeros(6) \o ActionsInto(p.actions) \o p.data

\* PacketOut::try_from, the loop `while bytes_remaining > 0` with
\* ActionHeader::read_len, from cursor position pos; -1 stands for a
\* bytes_remaining wrapped around below zero
RECURSIVE PacketOutActions(_, _, _, _, _)
PacketOutActions(bytes, pos, bytes_remaining, actions, wraps) ==
    IF bytes_remaining = 0
    THEN [tag |-> "ok", val |-> actions, pos |-> pos]
    ELSE IF pos + 4 > Len(bytes)
    THEN [tag |-> "err", kind |-> "CouldNotReadLength", val |-> 2,
          ttype |-> "PacketQueue"]
    ELSE LET action_len == ReadU16BE(bytes, pos + 3) IN
         IF pos + action_len > Len(bytes)
         THEN [tag |-> "panic"]
         ELSE LET action == ActionHeaderTryFrom(SubSeq(bytes, pos + 1, pos + action_len))
              IN  IF action.tag # "ok"
                  THEN action
                  ELSE IF bytes_remaining = -1 \/ action_len > bytes_remaining
                  THEN IF wraps
                       THEN PacketOutActions(bytes, pos + action_len, -1,
                                             Append(actions, action.val), wraps)
                       ELSE [tag |-> "panic"]
                  ELSE PacketOutActions(bytes, pos + action_len,
                                        bytes_remaining - action_len,
                                        Append(actions, action.val), wraps)

\* impl TryFrom<&[u8]> for PacketOut: the outcomes over the builds whose
\* arithmetic wraps or not.  The cursor is set to offset 8 before the loop.
PacketOutTryFrom(bytes) ==
    { IF Len(bytes) < 8
      THEN [tag |-> "panic"]
      ELSE LET in_port == PortNumberTryFrom(ReadU32Halves(bytes, 5)) IN
           IF in_port.tag # "ok"
           THEN in_port
           ELSE IF Len(bytes) < 10
           THEN [tag |-> "panic"]
           ELSE LET actions_len == ReadU16BE(bytes, 9)
                    actions == PacketOutActions(bytes, 8, actions_len, <<>>, wraps)
                IN  IF actions.tag # "ok"
                    THEN actions
                    ELSE [tag |-> "ok",
                          val |-> [buffer_id |-> ReadU32Halves(bytes, 1),
                                   in_port |-> in_port.val,
                                   actions_len |-> actions_len,
                                   actions |-> actions.val,
                                   data |-> SubSeq(bytes, actions.pos + 1, Len(bytes))]]
      : wraps \in BOOLEAN }

(***************************************************************************)
(* SpecPacketOut: PacketOut::new, Into<Vec<u8>>, then PacketOut::try_from  *)
(***************************************************************************)
\* fn_in: the arguments of PacketOut::new, the action lists made of Output
\* actions and of a Group action as the decoder returns it; or fn_in empty
\* and fn_mid.bytes a slice in which an action starts at offset 8
PacketOutInit ==
    /\ CtlInit
    /\ RbIdle
    /\ fn_out = <<>>
    /\ \/ /\ fn_pc = "in"
          /\ fn_mid = <<>>
          /\ fn_in \in
               [buffer_id : {<<0, 7>>, <<65535, 65535>>},
                in_port : {[kind |-> "NormalPort", port |-> <<0, 1>>],
                           [kind |-> "Reserved", port |-> "Controller"]},
                actions : LET Out(p) == PayloadOutputIntoActionHeader(p, 128)
                              Group == ActionHeaderTryFrom(<<0, 22, 0, 8, 0, 0, 0, 5>>).val
                          IN  { <<>>,
                                <<Out([kind |-> "NormalPort", port |-> <<0, 2>>])>>,
                                <<Out([kind |-> "NormalPort", port |-> <<0, 2>>]),
                                  Out([kind |-> "Reserved", port |-> "Flood"])>>,
                                <<Group>> },
                data : {<<>>, <<170>>, <<0, 0, 0, 8, 1, 2, 3, 4>>}]
       \/ /\ fn_pc = "bytes"
          /\ fn_in = <<>>
          /\ \E n \in 0..34 :
                fn_mid = [tag |-> "ok", val |-> <<>>,
                          bytes |-> SubSeq(<<0, 0, 0, 7, 0, 0, 0, 1, 0, 22, 0, 22, 0, 0, 0, 5>>
                                               \o Zeros(14) \o <<1, 2, 3, 4>>, 1, n)]

\* let p = PacketOut::new(buffer_id, in_port, actions, data)
PacketOutNewStep ==
    /\ fn_pc = "in"
    /\ fn_mid' \in PacketOutNew(fn_in.buffer_id, fn_in.in_port, fn_in.actions, fn_in.data)
    /\ fn_pc' = "new"
    /\ UNCHANGED <<ctlVars, rbVars, fn_in, fn_out>>

\* let bytes: Vec<u8> = p.into()
PacketOutIntoStep ==
    /\ fn_pc = "new"
    /\ fn_mid.tag = "ok"
    /\ fn_mid' = [tag |-> "ok", val |-> fn_mid.val, bytes |-> PacketOutInto(fn_mid.val)]
    /\ fn_pc' = "bytes"
    /\ UNCHANGED <<ctlVars, rbVars, fn_in, fn_out>>

\* PacketOut::try_from(&bytes[..])
PacketOutTryFromStep ==
    /\ fn_pc = "bytes"
    /\ fn_out' \in PacketOutTryFrom(fn_mid.bytes)
    /\ fn_pc' = "done"
    /\ UNCHANGED <<ctlVars, rbVars, fn_in, fn_mid>>

PacketOutNext == PacketOutNewStep \/ PacketOutIntoStep \/ PacketOutTryFromStep

SpecPacketOut == PacketOutInit /\ [][PacketOutNext]_vars

\* C19: a PacketOut built by PacketOut::new carries the sum of its actions'
\* declared lengths as actions_len, and decoding its encoded bytes returns
\* an equal PacketOut.
C19_PacketOutRoundTrip ==
    fn_in # <<>> =>
        /\ (fn_pc \in {"new", "bytes", "done"} /\ fn_mid.tag = "ok") =>
                fn_mid.val.actions_len = SumOfLens(fn_in.actions)
        /\ fn_pc = "done" => fn_out = [tag |-> "ok", val |-> fn_mid.val]

(***************************************************************************)
(* ds/packet_queue.rs: PacketQueue and its properties                      *)
(***************************************************************************)
PACKET_QUEUE_LENGTH == 16
QUEUE_PROP_HEADER_LENGTH == 8

\* enum QueueProperties
QueuePropertiesCode == [MinRate |-> 1, MaxRate |-> 2, Experimenter |-> 65535]

\* impl Into<Vec<u8>> for QueuePropMessage, QueuePropHeader, QueuePropPayload
\* and the three payload structs
QueuePropMessageInto(m) ==
    U16BE(QueuePropertiesCode[m.header.property]) \o U16BE(m.header.len) \o Zeros(4)
        \o CASE m.payload.kind \in {"Min", "Max"} -> U16BE(m.payload.rate) \o Zeros(6)
             [] m.payload.kind = "Experimenter" ->
                    U32HalvesBE(m.payload.experimenter) \o Zeros(4) \o m.payload.data

RECURSIVE QueuePropsInto(_)
QueuePropsInto(properties) ==
    IF properties = <<>>
    THEN <<>>
    ELSE QueuePropMessageInto(Head(properties)) \o QueuePropsInto(Tail(properties))

\* impl Into<Vec<u8>> for PacketQueue
PacketQueueInto(q) ==
    U32HalvesBE(q.queue_id) \o U32HalvesBE(PortNumberInto(q.port)) \o U16BE(q.len)
        \o Zeros(6) \o QueuePropsInto(q.properties)

\* PacketQueue::try_from, the loop `while cursor.position() < bytes.len()`
\* with the try_from of QueuePropHeader and of the three payload structs
RECURSIVE PacketQueueProperties(_, _, _)
PacketQueueProperties(bytes, pos, properties) ==
    IF pos >= Len(bytes)
    THEN [tag |-> "ok", val |-> properties]
    ELSE IF pos + QUEUE_PROP_HEADER_LENGTH > Len(bytes)
    THEN [tag |-> "panic"]
    ELSE LET property_raw == ReadU16BE(bytes, pos + 1)
             len == ReadU16BE(bytes, pos + 3)
             start == pos + QUEUE_PROP_HEADER_LENGTH
         IN
    IF \A p \in DOMAIN QueuePropertiesCode : QueuePropertiesCode[p] # property_raw
    THEN [tag |-> "err", kind |-> "UnknownValue", val |-> property_raw,
          ttype |-> "QueueProperties"]
    ELSE IF start + len > Len(bytes)
    THEN [tag |-> "panic"]
    ELSE LET property == CHOOSE p \in DOMAIN QueuePropertiesCode :
                             QueuePropertiesCode[p] = property_raw
             prop_slice == SubSeq(bytes, start + 1, start + len)
             Push(payload) ==
                 PacketQueueProperties(bytes, start + len,
                     Append(properties,
                            [header |-> [property |-> property, len |-> len],
                             payload |-> payload]))
         IN  CASE property = "MinRate" ->
                    IF Len(prop_slice) < 2
                    THEN [tag |-> "err", kind |-> "Msg"]
                    ELSE Push([kind |-> "Min", rate |-> ReadU16BE(prop_slice, 1)])
               [] property = "MaxRate" ->
                    IF Len(prop_slice) < 2
                    THEN [tag |-> "err", kind |-> "Msg"]
                    ELSE Push([kind |-> "Max", rate |-> ReadU16BE(prop_slice, 1)])
               [] property = "Experimenter" ->
                    IF Len(prop_slice) < 4
                    THEN [tag |-> "err", kind |-> "Msg"]
                    ELSE IF Len(prop_slice) < 8
                    THEN [tag |-> "panic"]
                    ELSE Push([kind |-> "Experimenter",
                               experimenter |-> ReadU32Halves(prop_slice, 1),
                               data |-> SubSeq(prop_slice, 9, Len(prop_slice))])

\* impl TryFrom<&[u8]> for PacketQueue
PacketQueueTryFrom(bytes) ==
    IF Len(bytes) < 8
    THEN [tag |-> "err", kind |-> "Msg"]
    ELSE LET port == PortNumberTryFrom(ReadU32Halves(bytes, 5)) IN
    IF port.tag # "ok"
    THEN port
    ELSE IF Len(bytes) < 10
    THEN [tag |-> "err", kind |-> "Msg"]
    ELSE LET len == ReadU16BE(bytes, 9) IN
    IF Len(bytes) # len
    THEN [tag |-> "err", kind |-> "InvalidSliceLength", expected |-> len,
          actual |-> Len(bytes), ttype |-> "PacketQueue"]
    ELSE LET properties == PacketQueueProperties(bytes, PACKET_QUEUE_LENGTH, <<>>) IN
         IF properties.tag # "ok"
         THEN properties
         ELSE [tag |-> "ok",
               val |-> [queue_id |-> ReadU32Halves(bytes, 1), port |-> port.val,
                        len |-> len, properties |-> properties.val]]

(***************************************************************************)
(* SpecPacketQueue: Into<Vec<u8>> for PacketQueue, then                    *)
(* PacketQueue::try_from of the bytes, of a prefix or of one byte more     *)
(***************************************************************************)
\* the queues that are encoded: up to two properties, each header's len
\* the size of its payload or, for one MinRate, the size of the property
\* with its header; the len of the queue is its encoded size
PacketQueueInit ==
    /\ CtlInit
    /\ RbIdle
    /\ fn_pc = "in"
    /\ fn_mid = <<>>
    /\ fn_out = <<>>
    /\ LET Prop(property, len, payload) ==
               [header |-> [property |-> property, len |-> len], payload |-> payload]
           Props ==
               { Prop("MinRate", 8, [kind |-> "Min", rate |-> 5]),
                 Prop("MinRate", 16, [kind |-> "Min", rate |-> 5]),
                 Prop("MaxRate", 8, [kind |-> "Max", rate |-> 1000]),
                 Prop("Experimenter", 8,
                      [kind |-> "Experimenter", experimenter |-> <<0, 1>>, data |-> <<>>]),
                 Prop("Experimenter", 10,
                      [kind |-> "Experimenter", experimenter |-> <<0, 1>>,
                       data |-> <<9, 9>>]) }
           Lists == {<<>>} \cup {<<p>> : p \in Props}
                        \cup {<<p, q>> : p \in Props, q \in Props}
           Sized(q) == [q EXCEPT !.len = Len(PacketQueueInto(q))]
       IN  fn_in \in { Sized(q) : q \in [queue_id : {<<0, 1>>},
                                         port : {[kind |-> "NormalPort", port |-> <<0, 2>>],
                                                 [kind |-> "Reserved", port |-> "Any"]},
                                         len : {0},
                                         properties : Lists] }

\* let bytes: Vec<u8> = queue.into()
PacketQueueIntoStep ==
    /\ fn_pc = "in"
    /\ fn_mid' = PacketQueueInto(fn_in)
    /\ fn_pc' = "mid"
    /\ UNCHANGED <<ctlVars, rbVars, fn_in, fn_out>>

\* PacketQueue::try_from(slice), the slice being the first n bytes or the
\* bytes and one more
PacketQueueTryFromStep ==
    /\ fn_pc = "mid"
    /\ \E n \in 0..(Len(fn_mid) + 1) :
          LET slice == IF n <= Len(fn_mid) THEN SubSeq(fn_mid, 1, n) ELSE Append(fn_mid, 0)
          IN  fn_out' = [slice |-> slice, res |-> PacketQueueTryFrom(slice)]
    /\ fn_pc' = "done"
    /\ UNCHANGED <<ctlVars, rbVars, fn_in, fn_mid>>

PacketQueueNext == PacketQueueIntoStep \/ PacketQueueTryFromStep

SpecPacketQueue == PacketQueueInit /\ [][PacketQueueNext]_vars

\* C20: decoding the bytes produced by encoding a PacketQueue whose len is
\* its encoded size returns an equal PacketQueue, and decoding a slice that
\* holds the len field and whose length differs from it fails with
\* InvalidSliceLength.
C20_PacketQueueRoundTrip ==
    fn_pc = "done" =>
        /\ fn_out.slice = fn_mid => fn_out.res = [tag |-> "ok", val |-> fn_in]
        /\ (Len(fn_out.slice) >= 10 /\ Len(fn_out.slice) # fn_in.len) =>
                /\ fn_out.res.tag = "err"
                /\ fn_out.res.kind = "InvalidSliceLength"

(***************************************************************************)
(* Properties of the sessions after a failure                              *)
(***************************************************************************)
\* the output thread of s has ended in a failed write_all: it has panicked
\* and part of a message is on the socket (every message the dispatcher or
\* the handler sends is 8 bytes long, a failed write leaves fewer)
WriteFailed(s) == writer[s] = "panicked" /\ Len(sock_out[s]) % HEADER_LENGTH # 0

\* this step, the input thread of s puts an event in the dispatcher's inbox
DeliversEvent(s) ==
    /\ ReadsFrame(s)
    /\ Len(inbox') = Len(inbox) + 1
    /\ Last(inbox').from = s

\* C21: once a write on the socket of a session has failed in its output
\* thread, the input thread of that session hands no further event to the
\* dispatcher.
C21_WriteFailureClosesSession ==
    [][\A s \in Sessions : WriteFailed(s) => ~DeliversEvent(s)]_vars


\* C23: the decoder of a flag set (here Capabilities, read by
\* SwitchFeatures::try_from) answers a word that has a bit outside of the
\* defined mask with a typed error: it neither panics on it nor accepts it.
C23_UnknownBitsAreTypedError ==
    (/\ fn_pc \in {"mid", "done"}
     /\ Len(fn_in) >= 24
     /\ ~BitsWithin(ReadU32BE(fn_in, 17), CapabilitiesAll)) =>
        fn_mid.tag = "err"


\* C25: read_bytes(stream, len) on a stream that holds at least len bytes:
\* it returns exactly the first len bytes of the stream, in order, having
\* read no byte more, whatever the sizes of the partial reads; each pass of
\* its loop asks read_exact for 1..READ_BUFFER_SIZE bytes that are still
\* missing, so that it neither panics nor reads at the end of the stream;
\* for len = 0 it returns without entering read_exact.
C25_ReadBytesReturnsLenBytes ==
    /\ rb_pc = "ok" =>
          /\ rb_res = [i \in 1..rb_len |-> StreamByte(i)]
          /\ rb_pos = rb_len
    /\ rb_pc = "inner" =>
          /\ rb_btr \in 1..READ_BUFFER_SIZE
          /\ rb_read + rb_btr <= rb_len
          /\ Len(rb_slice) + rb_buf = rb_btr
          /\ rb_res \o rb_slice = [i \in 1..rb_pos |-> StreamByte(i)]
    /\ rb_total >= rb_len => (rb_pc # "panicked" /\ rb_zero = 0)
    /\ rb_len = 0 => (rb_pc \in {"outer", "ok"} /\ rb_pos = 0)

\* 129 bytes were returned from a stream of 130, in two passes of the loop
C25_Witness ==
    /\ rb_pc = "ok"
    /\ rb_len = 129
    /\ rb_total = 130
    /\ Len(rb_res) = 129
    /\ rb_res[129] = StreamByte(129)
    /\ rb_btr = 1


(***************************************************************************)
(* ds/switch_config.rs: SwitchConfig, Into<Vec<u8>> followed by try_from   *)
(***************************************************************************)
\* bitflags ConfigFlags: FRAG_NORMAL = 0, FRAG_DROP = 1, FRAG_REASM = 2,
\* FRAG_MASK = 3
ConfigFlagsAll == 3

\* impl TryFrom<&[u8]> for SwitchConfig: both reads and from_bits are
\* unwrap()ed
SwitchConfigTryFrom(bytes) ==
    IF Len(bytes) < 2
    THEN [tag |-> "panic"]
    ELSE IF ~BitsWithin(ReadU16BE(bytes, 1), ConfigFlagsAll)
    THEN [tag |-> "panic"]
    ELSE IF Len(bytes) < 4
    THEN [tag |-> "panic"]
    ELSE [tag |-> "ok",
          val |-> [flags |-> ReadU16BE(bytes, 1), miss_send_len |-> ReadU16BE(bytes, 3)]]

\* impl Into<Vec<u8>> for SwitchConfig: self.flags.bits() is written twice
SwitchConfigInto(c) == U16BE(c.flags) \o U16BE(c.flags)

\* the values that are encoded: every ConfigFlags, some miss_send_len
SwitchConfigInit ==
    /\ CtlInit
    /\ RbIdle
    /\ fn_pc = "in"
    /\ fn_in \in [flags : 0..ConfigFlagsAll,
                  miss_send_len : {0, 1, 2, 3, 128, 255, 256, 65509, 65535}]
    /\ fn_mid = <<>>
    /\ fn_out = <<>>

\* let bytes: Vec<u8> = config.into()
SwitchConfigIntoStep ==
    /\ fn_pc = "in"
    /\ fn_mid' = SwitchConfigInto(fn_in)
    /\ fn_pc' = "mid"
    /\ UNCHANGED <<ctlVars, rbVars, fn_in, fn_out>>

\* SwitchConfig::try_from(&bytes[..])
SwitchConfigTryFromStep ==
    /\ fn_pc = "mid"
    /\ fn_out' = SwitchConfigTryFrom(fn_mid)
    /\ fn_pc' = "done"
    /\ UNCHANGED <<ctlVars, rbVars, fn_in, fn_mid>>

SwitchConfigNext == SwitchConfigIntoStep \/ SwitchConfigTryFromStep

SpecSwitchConfig == SwitchConfigInit /\ [][SwitchConfigNext]_vars

\* C26: a SwitchConfig is encoded as 4 bytes, its flags as a big-endian u16
\* and then its miss_send_len as a big-endian u16, and decoding these bytes
\* returns an equal SwitchConfig.
C26_SwitchConfigRoundTrip ==
    /\ fn_pc \in {"mid", "done"} =>
          fn_mid = U16BE(fn_in.flags) \o U16BE(fn_in.miss_send_len)
    /\ fn_pc = "done" => fn_out = [tag |-> "ok", val |-> fn_in]


\* C27: a frame whose type is one of the types the controller has to route
\* (all of them but Experimenter, MultipartRequest and MultipartReply) and
\* that the input thread reads without failing is handed to the dispatcher
\* as an event of that session: none of them is dropped.
C27_RequiredTypesAreDelivered ==
    [][\A s \in Sessions :
          (/\ ReadsFrame(s)
           /\ reader'[s] = "running"
           /\ LET ttype == TypeFromU8(Last(arrived'[s]).hdr[2]) IN
                 /\ ttype.some
                 /\ ttype.val \notin {"Experimenter", "MultipartRequest", "MultipartReply"})
              => DeliversEvent(s)]_vars


\* C28: a message is sent on the reply channel of session s only while the
\* dispatcher handles an event that was read from s (its own reply or a
\* message of the handler, with the xid of that event), it is queued for the
\* output thread of s, and the socket of s only ever receives bytes of the
\* message at the head of that queue: no reply reaches the socket of a
\* session other than the one its event came from.
C28_RepliesStayOnTheirSession ==
    [][\A s \in Sessions :
          /\ sent'[s] # sent[s] =>
                /\ TakesEvent
                /\ Head(inbox).from = s
                /\ Head(inbox).reply_ch = s
                /\ sent'[s] = Append(sent[s], Last(sent'[s]))
                /\ Last(sent'[s]).msg.header.xid = Head(inbox).msg.header.xid
                /\ replyq'[s] = Append(replyq[s], Last(sent'[s]).msg)
          /\ (replyq'[s] # replyq[s] /\ sent'[s] = sent[s]) =>
                \/ replyq'[s] = <<>>
                \/ replyq[s] # <<>> /\ replyq'[s] = Tail(replyq[s])
          /\ sock_out'[s] # sock_out[s] =>
                /\ replyq[s] # <<>>
                /\ LET write_slice == OfMsgInto(Head(replyq[s])) IN
                      /\ write_slice.tag = "ok"
                      /\ \E k \in 1..Len(write_slice.val) :
                            sock_out'[s] = sock_out[s] \o SubSeq(write_slice.val, 1, k)]_vars

\* the dispatcher's reply to one session and a message the handler sent
\* for an event of the other are each on the socket of their own session
C28_Witness ==
    \E a, b \in Sessions :
        /\ a # b
        /\ Len(sent[a]) = 1 /\ sent[a][1].by = "handle_echo_request"
        /\ Len(sent[b]) = 1 /\ sent[b][1].by = "handler"
        /\ sock_out[a] = <<4, 3, 0, 8>> \o U32BE(sent[a][1].msg.header.xid)
        /\ Len(sock_out[b]) = HEADER_LENGTH
        /\ SubSeq(sock_out[b], 5, 8) = U32BE(sent[b][1].msg.header.xid)
        /\ sock_out[a] # sock_out[b]


(***************************************************************************)
(* Spec with fair scheduling: a thread that can take a step of its loop    *)
(* eventually takes it (the input threads, the Handler-Thread, the output  *)
(* threads)                                                                *)
(***************************************************************************)
SpecFair ==
    /\ Spec
    /\ WF_vars(Dispatch)
    /\ \A s \in Sessions : WF_vars(ReaderStep(s))
    /\ \A s \in Sessions : WF_vars(WriterStep(s))

\* the i-th frame the switch of session s has sent is a Hello or an
\* EchoRequest that the input thread read and handed on
AutoRequestArrived(s, i) ==
    /\ Len(arrived[s]) >= i
    /\ arrived[s][i].hdr[2] \in {TypeByte["Hello"], TypeByte["EchoRequest"]}
    /\ ReaderOutcome(arrived[s][i]).tag = "deliver"

\* the reply to that frame, 04, type (Hello 0 for Hello, EchoReply 3 for
\* EchoRequest), 00 08 and the frame's xid, is on the socket of s
AutoReplyWritten(s, i) ==
    /\ Len(arrived[s]) >= i
    /\ LET ttype == IF arrived[s][i].hdr[2] = TypeByte["Hello"]
                    THEN TypeByte["Hello"]
                    ELSE TypeByte["EchoReply"]
           reply == <<4, ttype, 0, 8>> \o SubSeq(arrived[s][i].hdr, 5, 8)
       IN  \E k \in 0..((Len(sock_out[s]) \div HEADER_LENGTH) - 1) :
               SubSeq(sock_out[s], k * HEADER_LENGTH + 1, (k + 1) * HEADER_LENGTH) = reply

\* a thread of session s is not running: it was not started, or it has
\* ended (after an I/O failure or otherwise)
SessionEnded(s) == reader[s] # "running" \/ writer[s] # "running"

\* C29: under fair scheduling, every Hello or EchoRequest that a switch
\* sends on a session is eventually answered on the socket of that session,
\* unless a thread of that session is not running.
C29_AutoRequestsEventuallyAnswered ==
    \A s \in Sessions : \A i \in 1..MaxMsgs :
        AutoRequestArrived(s, i) ~> (AutoReplyWritten(s, i) \/ SessionEnded(s))


\* C30: for every payload variant, generate_header(xid) returns, without a
\* panic, the header (1.3, the type named like the variant, 8, xid).
C30_HeaderTypeIsVariantName ==
    fn_pc \in {"mid", "done"} =>
        /\ fn_mid.tag = "ok"
        /\ fn_mid.val.header = [version |-> "V1_3", ttype |-> fn_in.payload,
                                length |-> HEADER_LENGTH, xid |-> fn_in.xid]

====
